---------------------------- MODULE Spec2Model ----------------------------
(***************************************************************************)
(* Model of the email-DNS inspector backend (umarsofiyaan/email-dns-backend).*)
(*                                                                         *)
(* The repository holds three drafts of the same Express server.  The      *)
(* fullest one, src/unnamed/part_001 (MX provider table, checkAllTXT,      *)
(* buildReputation), is the program modelled by Spec.  The request handler *)
(* of src/server.js, which validates the raw domain before normalising it, *)
(* is modelled by SpecServer.  The pure helpers (SPF parsing, DKIM key     *)
(* size, reputation) are exercised on bounded inputs by SpecSPF, SpecKey   *)
(* and SpecRep.                                                            *)
(*                                                                         *)
(* JavaScript strings are sequences of one-character strings, so that      *)
(* includes / startsWith / match / replace are computed character by       *)
(* character as the regular expressions of the source do.                  *)
(***************************************************************************)
EXTENDS Integers, Sequences, FiniteSets, TLC

VARIABLES
    draft,    \* the draft whose code runs: "part_001", "server.js" or "part_000"
    pc,       \* the handler of POST /api/check: idle, awaiting, responded, crashed
    req,      \* the request body: [domain, ip]
    clean,    \* the normalised domain (local `clean` / `cleanDomain`)
    chk,      \* per checker: idle, dns (suspended at an await), done, threw
    result,   \* per checker: the value its promise resolved with
    dkimI,    \* checkDKIM: index of the selector whose probe is outstanding
    found,    \* checkDKIM: the `found` array
    ptrHost,  \* checkPTR: the local `hostname`
    calls,    \* every DNS call issued so far: [by, kind, name]
    erred,    \* tracked checkers one of whose DNS calls failed with a ResolutionError
    oked,     \* tracked checkers one of whose DNS calls returned an answer
    resp,     \* the HTTP response sent, if any
    pin,      \* input of a pure helper (SpecSPF, SpecKey, SpecRep)
    pout      \* output of a pure helper

vars == <<draft, pc, req, clean, chk, result, dkimI, found, ptrHost, calls,
          erred, oked, resp, pin, pout>>

handlerVars == <<draft, pc, req, clean, chk, result, dkimI, found, ptrHost,
                 calls, erred, oked, resp>>

-----------------------------------------------------------------------------
(* Bounds of the model. *)

\* SPF records of SpecSPF: up to MaxIncl `include:` terms, then up to
\* MaxExtra further terms.
MaxIncl == 12
MaxExtra == 2
\* Longest base64 key of SpecKey.
MaxKeyLen == 345
\* Selectors of SpecDKIM whose probe outcome varies.
MaxProbed == 4
\* Most tag=value segments after v=DMARC1 in a record of SpecDMARC.
MaxSegs == 3
\* Most MX records in an answer of SpecMX.
MaxMx == 2

-----------------------------------------------------------------------------
(* JavaScript strings and values. *)

\* null / undefined for an optional value; Some(x) for a present one.
Null == <<>>
Some(x) == <<x>>

RECURSIVE Flatten(_)
\* Array.prototype.join(''): the chunks of a TXT record concatenated.
Flatten(chunks) ==
    IF chunks = <<>> THEN <<>> ELSE Head(chunks) \o Flatten(Tail(chunks))

\* s has the literal p at position i.
MatchAt(s, i, p) ==
    /\ i >= 1
    /\ i + Len(p) - 1 <= Len(s)
    /\ SubSeq(s, i, i + Len(p) - 1) = p

\* String.prototype.startsWith / includes.
StartsWith(s, p) == MatchAt(s, 1, p)
Includes(s, p) == \E i \in 1..(Len(s) + 1) : MatchAt(s, i, p)

Uppers == <<"A","B","C","D","E","F","G","H","I","J","K","L","M",
            "N","O","P","Q","R","S","T","U","V","W","X","Y","Z">>
Lowers == <<"a","b","c","d","e","f","g","h","i","j","k","l","m",
            "n","o","p","q","r","s","t","u","v","w","x","y","z">>
Digits == <<"0","1","2","3","4","5","6","7","8","9">>

Range(f) == {f[i] : i \in DOMAIN f}

\* \w of a JavaScript regular expression.
WordChars == Range(Uppers) \cup Range(Lowers) \cup Range(Digits) \cup {"_"}
IsWord(c) == c \in WordChars

\* \b before position i / after position i of s.
BoundaryBefore(s, i) ==
    IsWord(s[i]) # (i > 1 /\ IsWord(s[i - 1]))
BoundaryAfter(s, i) ==
    IsWord(s[i]) # (i < Len(s) /\ IsWord(s[i + 1]))

LowerChar(c) ==
    IF \E i \in 1..26 : Uppers[i] = c
    THEN Lowers[CHOOSE i \in 1..26 : Uppers[i] = c]
    ELSE c
\* String.prototype.toLowerCase.
ToLowerCase(s) == [i \in 1..Len(s) |-> LowerChar(s[i])]

WhiteSpace == {" ", "\t", "\n"}
RECURSIVE TrimStart(_)
TrimStart(s) ==
    IF s # <<>> /\ Head(s) \in WhiteSpace THEN TrimStart(Tail(s)) ELSE s
RECURSIVE TrimEnd(_)
TrimEnd(s) ==
    IF s # <<>> /\ s[Len(s)] \in WhiteSpace
    THEN TrimEnd(SubSeq(s, 1, Len(s) - 1))
    ELSE s
\* String.prototype.trim.
Trim(s) == TrimEnd(TrimStart(s))

\* A DNS Capability reply: an answer, or a ResolutionError with its message.
ErrMsg == "ENOTFOUND"
DnsErr == [ok |-> FALSE, msg |-> ErrMsg]
DnsOk(answer) == [ok |-> TRUE, val |-> answer]

\* How an async function ends: its promise resolves with a value, or rejects.
Returned(v) == [threw |-> FALSE, val |-> v]
Threw == [threw |-> TRUE]

-----------------------------------------------------------------------------
(* SPF helpers (part_001). *)

s_vspf1 == <<"v","=","s","p","f","1">>                \* "v=spf1"
s_include == <<"i","n","c","l","u","d","e",":">>      \* "include:"
s_a_colon == <<"a",":">>                              \* "a:"
s_mx == <<"m","x">>                                   \* "mx"
s_ptr == <<"p","t","r">>                              \* "ptr"
s_exists == <<"e","x","i","s","t","s",":">>           \* "exists:"
s_minus_all == <<"-","a","l","l">>                    \* "-all"
s_tilde_all == <<"~","a","l","l">>                    \* "~all"
s_quest_all == <<"?","a","l","l">>                    \* "?all"
s_plus_all == <<"+","a","l","l">>                     \* "+all"

\* txt.map(r => Array.isArray(r) ? r.join('') : r).filter(r => r.startsWith('v=spf1'))
SPFRecordsOf(txt) ==
    SelectSeq([i \in 1..Len(txt) |-> Flatten(txt[i])],
              LAMBDA r : StartsWith(r, s_vspf1))

extractSPF(txt) ==
    LET records == SPFRecordsOf(txt)
    IN  IF Len(records) = 0 THEN Null
        ELSE Some([record |-> records[1], multiple |-> Len(records) > 1])

\* (spf.match(/lit/g) || []).length: the literals counted here cannot overlap
\* themselves, so the matches of a global search are the match positions.
CountLiteral(s, p) == Cardinality({i \in 1..Len(s) : MatchAt(s, i, p)})
\* /\ba:/g
CountWordStart(s, p) ==
    Cardinality({i \in 1..Len(s) : MatchAt(s, i, p) /\ BoundaryBefore(s, i)})
\* /\bmx\b/g, /\bptr\b/g
CountWord(s, p) ==
    Cardinality({i \in 1..Len(s) :
        /\ MatchAt(s, i, p)
        /\ BoundaryBefore(s, i)
        /\ BoundaryAfter(s, i + Len(p) - 1)})

countSPFLookups(spf) ==
    CountLiteral(spf, s_include)
    + CountWordStart(spf, s_a_colon)
    + CountWord(spf, s_mx)
    + CountWord(spf, s_ptr)
    + CountLiteral(spf, s_exists)

P_Fail == "Fail (Reject)"
P_SoftFail == "SoftFail (Accept but mark)"
P_Neutral == "Neutral (No policy)"
P_Pass == "Pass (Accept all - DANGEROUS)"
P_Unknown == "Unknown"

\* The mutant checks ~all before -all.
spfPolicy_tildeFirst(spf) ==
    IF Includes(spf, s_tilde_all) THEN P_SoftFail
    ELSE IF Includes(spf, s_minus_all) THEN P_Fail
    ELSE IF Includes(spf, s_quest_all) THEN P_Neutral
    ELSE IF Includes(spf, s_plus_all) THEN P_Pass
    ELSE P_Unknown

spfPolicy(spf) ==
    IF Includes(spf, s_minus_all) THEN P_Fail
    ELSE IF Includes(spf, s_tilde_all) THEN P_SoftFail
    ELSE IF Includes(spf, s_quest_all) THEN P_Neutral
    ELSE IF Includes(spf, s_plus_all) THEN P_Pass
    ELSE P_Unknown

\* policy.includes('Neutral') || policy.includes('DANGEROUS'), over the five
\* strings spfPolicy returns.
TooPermissive(policy) == policy \in {P_Neutral, P_Pass}

\* The mutant warns from ten lookups on.
LookupLimitExceeded_ge(lookups) == lookups >= 10

\* lookups > 10
LookupLimitExceeded(lookups) == lookups > 10

\* checkSPF after `await dns.resolveTxt(domain)`.  The `mechanisms` field of
\* the result (spfMechanisms) feeds nothing else and is left out.
checkSPF_k(reply) ==
    IF ~reply.ok
    THEN Returned([status |-> "FAIL", record |-> Null, policy |-> "null",
                   lookupCount |-> 0, issues |-> <<reply.msg>>])
    ELSE
      LET spf == extractSPF(reply.val)
      IN  IF spf = Null
          THEN Returned([status |-> "FAIL", record |-> Null, policy |-> "null",
                         lookupCount |-> 0, issues |-> <<"No SPF record found">>])
          ELSE
            LET lookups == countSPFLookups(spf[1].record)
                policy == spfPolicy(spf[1].record)
                i1 == IF spf[1].multiple
                      THEN <<"Multiple SPF records detected">> ELSE <<>>
                i2 == IF LookupLimitExceeded(lookups)
                      THEN <<"SPF lookup count (" \o ToString(lookups)
                             \o ") exceeds limit of 10">>
                      ELSE <<>>
                i3 == IF TooPermissive(policy)
                      THEN <<"SPF policy is too permissive">> ELSE <<>>
                issues == i1 \o i2 \o i3
            IN  Returned([status |-> IF Len(issues) > 0 THEN "WARN" ELSE "PASS",
                          record |-> Some(spf[1].record),
                          policy |-> policy,
                          lookupCount |-> lookups,
                          issues |-> issues])

-----------------------------------------------------------------------------
(* Regular-expression extraction shared by the DKIM and DMARC helpers.     *)

\* c is in the character class: S itself (pos), or its complement.
InClass(c, S, pos) == (c \in S) = pos

\* The end of the greedy run [class]+ that has matched up to position k: the
\* place before the first character after k that is not in the class.
RunEnd(s, k, S, pos) ==
    LET stops == {j \in (k + 1)..Len(s) : ~InClass(s[j], S, pos)}
    IN  IF stops = {} THEN Len(s)
        ELSE (CHOOSE j \in stops : \A i \in stops : j <= i) - 1

\* record.match(/tag([class]+)/)?.[1]: the capture of the leftmost match, or
\* Null when the expression matches nowhere.
Capture(s, tag, S, pos) ==
    LET starts == {i \in 1..Len(s) :
                      /\ MatchAt(s, i, tag)
                      /\ i + Len(tag) <= Len(s)
                      /\ InClass(s[i + Len(tag)], S, pos)}
    IN  IF starts = {} THEN Null
        ELSE LET i == CHOOSE x \in starts : \A y \in starts : x <= y
                 from == i + Len(tag)
             IN  Some(SubSeq(s, from, RunEnd(s, from, S, pos)))

-----------------------------------------------------------------------------
(* DKIM helpers (part_001). *)

s_p_eq == <<"p","=">>                                  \* "p="
s_k_ed25519 == <<"k","=","e","d","2","5","5","1","9">>  \* "k=ed25519"

\* [A-Za-z0-9+/=]
Base64Chars == Range(Uppers) \cup Range(Lowers) \cup Range(Digits) \cup {"+", "/", "="}

dkimKeyType(rec) == IF Includes(rec, s_k_ed25519) THEN "Ed25519" ELSE "RSA"

\* Math.round((len * 6) / 8) * 8: Math.round rounds a half up.
KeyBits(len) == ((len * 6 + 4) \div 8) * 8

\* The mutant has the two labels the wrong way round.
KeySizeBucket_flipped(bits) ==
    IF bits >= 2048 THEN "1024-bit"
    ELSE IF bits >= 1024 THEN "2048-bit"
    ELSE ToString(bits) \o "-bit"

KeySizeBucket(bits) ==
    IF bits >= 2048 THEN "2048-bit"
    ELSE IF bits >= 1024 THEN "1024-bit"
    ELSE ToString(bits) \o "-bit"

dkimKeySize(rec) ==
    LET m == Capture(rec, s_p_eq, Base64Chars, TRUE)
    IN  IF m = Null THEN "Unknown" ELSE KeySizeBucket(KeyBits(Len(m[1])))

\* estimateDKIMKeySize of the draft part_000: (len * 6) / 8 * 8 is len * 6,
\* and the thresholds are 2000 and 1000.
estimateDKIMKeySize_p0(dkimRecord) ==
    LET keyMatch == Capture(dkimRecord, s_p_eq, Base64Chars, TRUE)
        estimatedBits == Len(keyMatch[1]) * 6
    IN  IF keyMatch = Null THEN "Unknown"
        ELSE IF estimatedBits >= 2000 THEN "2048-bit"
        ELSE IF estimatedBits >= 1000 THEN "1024-bit"
        ELSE "~" \o ToString(estimatedBits) \o "-bit"

-----------------------------------------------------------------------------
(* DMARC parser (part_001). *)

s_none == <<"n","o","n","e">>              \* "none"
s_sp_eq == <<"s","p","=">>                 \* "sp="
s_pct_eq == <<"p","c","t","=">>            \* "pct="
s_rua_eq == <<"r","u","a","=">>            \* "rua="
s_ruf_eq == <<"r","u","f","=">>            \* "ruf="
s_adkim_eq == <<"a","d","k","i","m","=">>  \* "adkim="
s_aspf_eq == <<"a","s","p","f","=">>       \* "aspf="
s_rf_eq == <<"r","f","=">>                 \* "rf="
s_ri_eq == <<"r","i","=">>                 \* "ri="

\* record.match(/tag=([^;]+)/)?.[1]
TagValue(record, tag) == Capture(record, tag, {";"}, FALSE)
\* ... || dflt  (a capture is never the empty string)
OrDefault(m, dflt) == IF m = Null THEN dflt ELSE m[1]

parseDMARC(record) ==
    [policy |-> OrDefault(TagValue(record, s_p_eq), s_none),
     subdomainPolicy |-> TagValue(record, s_sp_eq),
     percentage |-> OrDefault(TagValue(record, s_pct_eq), <<"1","0","0">>),
     rua |-> TagValue(record, s_rua_eq),
     ruf |-> TagValue(record, s_ruf_eq),
     dkimAlignment |-> OrDefault(TagValue(record, s_adkim_eq), <<"r">>),
     spfAlignment |-> OrDefault(TagValue(record, s_aspf_eq), <<"r">>),
     reportFormat |-> OrDefault(TagValue(record, s_rf_eq), <<"a","f","r","f">>),
     reportInterval |-> OrDefault(TagValue(record, s_ri_eq), <<"8","6","4","0","0">>)]

-----------------------------------------------------------------------------
(* MX provider map (part_001). *)

MX_PROVIDERS == <<
    [name |-> "Google Workspace",
     patterns |-> << <<"g","o","o","g","l","e",".","c","o","m">>,
                     <<"g","o","o","g","l","e","m","a","i","l",".","c","o","m">> >>],
    [name |-> "Microsoft 365",
     patterns |-> << <<"o","u","t","l","o","o","k",".","c","o","m">>,
                     <<"p","r","o","t","e","c","t","i","o","n",".","o","u","t","l","o","o","k",".","c","o","m">> >>],
    [name |-> "Zoho Mail",
     patterns |-> << <<"z","o","h","o",".","c","o","m">>,
                     <<"z","o","h","o",".","i","n">>,
                     <<"z","o","h","o","m","a","i","l",".","c","o","m">> >>],
    [name |-> "Proton Mail",
     patterns |-> << <<"p","r","o","t","o","n","m","a","i","l">>,
                     <<"p","r","o","t","o","n",".","m","e">> >>],
    [name |-> "Fastmail",
     patterns |-> << <<"f","a","s","t","m","a","i","l",".","c","o","m">> >>],
    [name |-> "Mimecast",
     patterns |-> << <<"m","i","m","e","c","a","s","t",".","c","o","m">> >>],
    [name |-> "Proofpoint",
     patterns |-> << <<"p","p","h","o","s","t","e","d",".","c","o","m">> >>] >>

\* hosts.find(h => h.includes(p)): the first host that includes p, or Null.
FindHost(hosts, p) ==
    LET hits == {i \in 1..Len(hosts) : Includes(hosts[i], p)}
    IN  IF hits = {} THEN Null
        ELSE Some(hosts[CHOOSE i \in hits : \A j \in hits : i <= j])

\* The (provider, pattern) pairs in the order the two for loops visit them.
ProviderPatterns ==
    UNION {{<<i, j>> : j \in 1..Len(MX_PROVIDERS[i].patterns)} :
              i \in 1..Len(MX_PROVIDERS)}
Earlier(a, b) == a[1] < b[1] \/ (a[1] = b[1] /\ a[2] <= b[2])

\* The mutant has the loops the other way round: the hosts in the outer
\* loop, the providers and their patterns inside.
detectMXProvider_hostMajor(mxRecords) ==
    LET hosts == [i \in 1..Len(mxRecords) |-> ToLowerCase(mxRecords[i].exchange)]
        hits == {h \in 1..Len(hosts) :
                    \E ij \in ProviderPatterns :
                        Includes(hosts[h], MX_PROVIDERS[ij[1]].patterns[ij[2]])}
    IN  IF hits = {}
        THEN [name |-> "Custom / Self-hosted", confidence |-> "low",
              matchedBy |-> Null]
        ELSE LET h == CHOOSE x \in hits : \A y \in hits : x <= y
                 ps == {ij \in ProviderPatterns :
                           Includes(hosts[h], MX_PROVIDERS[ij[1]].patterns[ij[2]])}
                 ij == CHOOSE a \in ps : \A b \in ps : Earlier(a, b)
             IN  [name |-> MX_PROVIDERS[ij[1]].name, confidence |-> "high",
                  matchedBy |-> Some(hosts[h])]

detectMXProvider(mxRecords) ==
    LET hosts == [i \in 1..Len(mxRecords) |-> ToLowerCase(mxRecords[i].exchange)]
        hits == {ij \in ProviderPatterns :
                    FindHost(hosts, MX_PROVIDERS[ij[1]].patterns[ij[2]]) # Null}
    IN  IF hits = {}
        THEN [name |-> "Custom / Self-hosted", confidence |-> "low",
              matchedBy |-> Null]
        ELSE LET ij == CHOOSE a \in hits : \A b \in hits : Earlier(a, b)
             IN  [name |-> MX_PROVIDERS[ij[1]].name, confidence |-> "high",
                  matchedBy |-> FindHost(hosts, MX_PROVIDERS[ij[1]].patterns[ij[2]])]

RECURSIVE InsertByPriority(_, _)
\* r placed after every record of the sorted list whose priority is not greater.
InsertByPriority(sorted, r) ==
    IF sorted = <<>> THEN <<r>>
    ELSE IF Head(sorted).priority <= r.priority
         THEN <<Head(sorted)>> \o InsertByPriority(Tail(sorted), r)
         ELSE <<r>> \o sorted

RECURSIVE SortByPriority(_)
\* records.sort((a, b) => a.priority - b.priority): Array.prototype.sort is stable.
SortByPriority(records) ==
    IF records = <<>> THEN <<>>
    ELSE InsertByPriority(SortByPriority(SubSeq(records, 1, Len(records) - 1)),
                          records[Len(records)])

-----------------------------------------------------------------------------
(* The checkers of part_001, each from the point where its DNS call has    *)
(* settled with `reply`.                                                   *)

\* The mutant has no try/catch: the ResolutionError leaves checkMX.
checkMX_k_nocatch(reply) ==
    IF ~reply.ok THEN Threw
    ELSE Returned([status |-> "PASS", records |-> SortByPriority(reply.val),
                   provider |-> Some(detectMXProvider(SortByPriority(reply.val))),
                   issues |-> <<>>])

checkMX_k(reply) ==
    IF ~reply.ok
    THEN Returned([status |-> "FAIL", records |-> <<>>, provider |-> Null,
                   issues |-> <<reply.msg>>])
    ELSE
      LET records == SortByPriority(reply.val)
          provider == detectMXProvider(records)
          issues == IF Len(records) = 0 THEN <<"No MX records found">> ELSE <<>>
      IN  Returned([status |-> IF Len(issues) > 0 THEN "WARN" ELSE "PASS",
                    records |-> records,
                    provider |-> Some(provider),
                    issues |-> issues])

s_domainkey == <<".","_","d","o","m","a","i","n","k","e","y",".">>  \* "._domainkey."
s_dmarc_dot == <<"_","d","m","a","r","c",".">>                      \* "_dmarc."

\* const selectors = [...] of checkDKIM.
selectors == <<
    <<"g","o","o","g","l","e">>,                  \* 'google'
    <<"s","e","l","e","c","t","o","r","1">>,      \* 'selector1'
    <<"s","e","l","e","c","t","o","r","2">>,      \* 'selector2'
    <<"d","e","f","a","u","l","t">>,              \* 'default'
    <<"s","1">>,                                  \* 's1'
    <<"s","2">>,                                  \* 's2'
    <<"d","k","i","m">>,                          \* 'dkim'
    <<"k","1">> >>                                \* 'k1'

\* `${s}._domainkey.${domain}`
DkimHost(s, domain) == s \o s_domainkey \o domain

\* recs[0] ? (Array.isArray(recs[0]) ? recs[0].join('') : recs[0]) : ''
FirstRecord(recs) == IF recs = <<>> THEN <<>> ELSE Flatten(recs[1])

\* The body of the for loop of checkDKIM once the probe of selector s has
\* settled: the `found` array afterwards.  A probe that fails is swallowed
\* by the empty catch.
dkimProbe_k(reply, s, domain, fnd) ==
    IF ~reply.ok THEN fnd
    ELSE
      LET record == FirstRecord(reply.val)
      IN  IF Includes(record, s_p_eq)
          THEN Append(fnd, [selector |-> s,
                            host |-> DkimHost(s, domain),
                            record |-> record,
                            keyType |-> dkimKeyType(record),
                            keySize |-> dkimKeySize(record)])
          ELSE fnd

\* The mutant reports FAIL when no selector answers.
checkDKIM_return_fail(fnd) ==
    IF Len(fnd) > 0
    THEN Returned([status |-> "PASS", selectors |-> fnd, issues |-> <<>>])
    ELSE Returned([status |-> "FAIL", selectors |-> <<>>,
                   issues |-> <<"No DKIM found on common selectors">>])

\* The return statement of checkDKIM.
checkDKIM_return(fnd) ==
    IF Len(fnd) > 0
    THEN Returned([status |-> "PASS", selectors |-> fnd, issues |-> <<>>])
    ELSE Returned([status |-> "WARN", selectors |-> <<>>,
                   issues |-> <<"No DKIM found on common selectors">>])

\* The mutant has no try/catch: the rejection of resolveTxt leaves the checker.
checkDMARC_k_nocatch(reply) ==
    IF ~reply.ok
    THEN Threw
    ELSE
      LET record == FirstRecord(reply.val)
          parsed == parseDMARC(record)
          i1 == IF parsed.policy = s_none
                THEN <<"DMARC policy is \"none\" - monitoring only">> ELSE <<>>
          i2 == IF parsed.rua = Null
                THEN <<"No aggregate report address configured">> ELSE <<>>
          issues == i1 \o i2
      IN  Returned([status |-> IF Len(issues) > 0 THEN "WARN" ELSE "PASS",
                    record |-> Some(record),
                    parsed |-> Some(parsed),
                    issues |-> issues])

checkDMARC_k(reply) ==
    IF ~reply.ok
    THEN Returned([status |-> "FAIL", record |-> Null, parsed |-> Null,
                   issues |-> <<"No DMARC record found">>])
    ELSE
      LET record == FirstRecord(reply.val)
          parsed == parseDMARC(record)
          i1 == IF parsed.policy = s_none
                THEN <<"DMARC policy is \"none\" - monitoring only">> ELSE <<>>
          i2 == IF parsed.rua = Null
                THEN <<"No aggregate report address configured">> ELSE <<>>
          issues == i1 \o i2
      IN  Returned([status |-> IF Len(issues) > 0 THEN "WARN" ELSE "PASS",
                    record |-> Some(record),
                    parsed |-> Some(parsed),
                    issues |-> issues])

\* !ip
NoIP(ip) == ip = <<>>

\* checkPTR when no IP was supplied.
checkPTR_skipped ==
    Returned([status |-> "SKIPPED", hostname |-> Null, fcRdns |-> "null",
              issues |-> <<"No IP address provided">>])

\* checkPTR when dns.reverse(ip) has failed: the outer catch.
checkPTR_reverse_failed(reply) ==
    Returned([status |-> "FAIL", hostname |-> Null, fcRdns |-> "null",
              issues |-> <<"PTR lookup failed: " \o reply.msg>>])

\* hostnames[0]
FirstHostname(hostnames) == IF hostnames = <<>> THEN Null ELSE Some(hostnames[1])

\* checkPTR when dns.resolve4(hostname) has failed: the inner catch.  With
\* no hostname (an empty reverse answer) resolve4(undefined) throws before
\* any query is sent, and lands in the same catch.
checkPTR_forward_failed(hostname) ==
    Returned([status |-> "FAIL", hostname |-> hostname, fcRdns |-> "false",
              issues |-> <<"Forward DNS lookup failed">>])

\* The mutant reports no issue when the forward lookup does not confirm.
checkPTR_forward_k_noissue(addrs, hostname, ip) ==
    LET fcRdns == \E i \in 1..Len(addrs) : addrs[i] = ip
    IN  Returned([status |-> IF fcRdns THEN "PASS" ELSE "FAIL",
                  hostname |-> hostname,
                  fcRdns |-> IF fcRdns THEN "true" ELSE "false",
                  issues |-> <<>>])

\* checkPTR when dns.resolve4(hostname) has answered.
checkPTR_forward_k(addrs, hostname, ip) ==
    LET fcRdns == \E i \in 1..Len(addrs) : addrs[i] = ip
    IN  Returned([status |-> IF fcRdns THEN "PASS" ELSE "FAIL",
                  hostname |-> hostname,
                  fcRdns |-> IF fcRdns THEN "true" ELSE "false",
                  issues |-> IF fcRdns THEN <<>> ELSE <<"FC-rDNS failed">>])

\* checkAllTXT after `await dns.resolveTxt(domain)`; the `categorized`
\* field of the result feeds nothing else and is left out.
checkAllTXT_k(reply) ==
    IF ~reply.ok
    THEN Returned([status |-> "FAIL", all |-> <<>>, total |-> 0,
                   error |-> Some(reply.msg)])
    ELSE
      LET formatted == [i \in 1..Len(reply.val) |-> Flatten(reply.val[i])]
      IN  Returned([status |-> "PASS", all |-> formatted,
                    total |-> Len(formatted), error |-> Null])

-----------------------------------------------------------------------------
(* The reputation scorer (part_001). *)

\* A JavaScript string that is neither null/undefined nor ''.
Truthy(o) == o # Null /\ o[1] # <<>>

\* if (!spf?.record) ... else if (spf.policy?.includes(...)) ...
SpfDeduction(spf) ==
    IF ~Truthy(spf.record)
    THEN [n |-> 25, notes |-> <<"No SPF record configured">>]
    ELSE IF TooPermissive(spf.policy)
         THEN [n |-> 20, notes |-> <<"SPF policy is weak">>]
         ELSE [n |-> 0, notes |-> <<>>]

\* if (!dkim?.selectors?.length) ...
DkimDeduction(dkim) ==
    IF Len(dkim.selectors) = 0
    THEN [n |-> 30, notes |-> <<"No DKIM detected">>]
    ELSE [n |-> 0, notes |-> <<>>]

\* The mutant deducts for DMARC what the SPF branch deducts: 20 for p=none
\* and for a missing record alike.
DmarcDeduction_flat(dmarc) ==
    IF ~Truthy(dmarc.record) \/ dmarc.parsed[1].policy = s_none
    THEN [n |-> 20, notes |-> <<"DMARC policy is none">>]
    ELSE [n |-> 0, notes |-> <<>>]

\* if (!dmarc?.record) ... else if (dmarc.parsed?.policy === 'none') ...
DmarcDeduction(dmarc) ==
    IF ~Truthy(dmarc.record)
    THEN [n |-> 25, notes |-> <<"No DMARC configured">>]
    ELSE IF dmarc.parsed[1].policy = s_none
         THEN [n |-> 15, notes |-> <<"DMARC policy is none">>]
         ELSE [n |-> 0, notes |-> <<>>]

\* The mutant puts a score of exactly 80 below Good.
LevelOf_le(score) ==
    IF score < 50 THEN "High Risk"
    ELSE IF score <= 80 THEN "Medium"
    ELSE "Good"

\* let level = 'Good'; if (score < 80) ...; if (score < 50) ...
LevelOf(score) ==
    IF score < 50 THEN "High Risk"
    ELSE IF score < 80 THEN "Medium"
    ELSE "Good"

buildReputation(spf, dkim, dmarc) ==
    LET d1 == SpfDeduction(spf)
        d2 == DkimDeduction(dkim)
        d3 == DmarcDeduction(dmarc)
        score == 100 - d1.n - d2.n - d3.n
    IN  [score |-> score, level |-> LevelOf(score),
         notes |-> d1.notes \o d2.notes \o d3.notes]

-----------------------------------------------------------------------------
(* The domain normaliser of the request handler. *)

s_http == <<"h","t","t","p",":","/","/">>          \* "http://"
s_https == <<"h","t","t","p","s",":","/","/">>     \* "https://"

\* .replace(/^https?:\/\//, '')
StripScheme(s) ==
    IF StartsWith(s, s_https) THEN SubSeq(s, Len(s_https) + 1, Len(s))
    ELSE IF StartsWith(s, s_http) THEN SubSeq(s, Len(s_http) + 1, Len(s))
    ELSE s

\* .replace(/\/$/, '')
StripSlash(s) ==
    IF s # <<>> /\ s[Len(s)] = "/" THEN SubSeq(s, 1, Len(s) - 1) ELSE s

\* domain.trim().toLowerCase().replace(/^https?:\/\//, '').replace(/\/$/, '')
CleanDomain(s) == StripSlash(StripScheme(ToLowerCase(Trim(s))))

-----------------------------------------------------------------------------
(* The state before any request: the handler idle, no checker started. *)

Checkers == {"MX", "SPF", "DKIM", "DMARC", "PTR", "TXT"}
Five == {"MX", "SPF", "DKIM", "DMARC", "PTR"}

NoResult == [status |-> "none"]
NotRun == Returned(NoResult)
NoRequest == [domain |-> Null, ip |-> ""]
NoResponse == [code |-> 0]
NoInput == [kind |-> "none"]

HandlerIdle ==
    /\ pc = "idle"
    /\ req = NoRequest
    /\ clean = Null
    /\ chk = [c \in Checkers |-> "idle"]
    /\ result = [c \in Checkers |-> NoResult]
    /\ dkimI = 0
    /\ found = <<>>
    /\ ptrHost = Null
    /\ calls = {}
    /\ erred = {}
    /\ oked = {}
    /\ resp = NoResponse

-----------------------------------------------------------------------------
(* The requests and the DNS zone the model draws from. *)

d_wrapped == <<" ","H","T","T","P","S",":","/","/","A",".","B","/"," ">>  \* " HTTPS://A.B/ "
ip_1 == <<"1","9","2",".","0",".","2",".","1">>                          \* "192.0.2.1"
ip_2 == <<"1","9","8",".","5","1",".","1","0","0",".","7">>              \* "198.51.100.7"
h_mail == <<"m","a","i","l",".","a",".","b">>                            \* "mail.a.b"

\* Raw domains whose normal form is empty: optional blanks around an
\* optional scheme and an optional slash.
EmptyRaws ==
    {pre \o scheme \o body \o post :
        pre \in {<<>>, <<" ">>},
        scheme \in {<<>>, s_http, s_https, <<"H","T","T","P","S",":","/","/">>},
        body \in {<<>>, <<"/">>},
        post \in {<<>>, <<" ">>}}

\* req.body.domain: missing (Null) or a string.
RawDomains == {Null} \cup {Some(d) : d \in EmptyRaws \cup {d_wrapped}}
\* req.body.ip: missing or '' (both falsy, <<>>), or an address.
IPs == {<<>>, ip_1}

MXReplies ==
    {DnsErr,
     DnsOk(<<>>),
     DnsOk(<<[exchange |-> <<"m","x",".","a",".","b">>, priority |-> 20],
             [exchange |-> <<"A","S","P","M","X",".","L",".","G","O","O","G","L","E",".","C","O","M">>,
              priority |-> 10]>>)}

TXTReplies ==
    {DnsErr,
     DnsOk(<< << <<"M","S","=","m","s","1">> >> >>)}      \* "MS=ms1"

SPFReplies ==
    TXTReplies \cup
    {DnsOk(<<>>),
     DnsOk(<< <<
       <<"v","=","s","p","f","1"," ","i","n","c","l","u","d","e",":","x",".","y"," ","-","a","l","l">>
     >> >>),                                   \* "v=spf1 include:x.y -all"
     DnsOk(<< <<
       <<"v","=","s","p","f","1"," ","+","a","l","l">>
     >> >>)}                                   \* "v=spf1 +all"

DMARCReplies ==
    {DnsErr,
     DnsOk(<<>>),
     DnsOk(<< <<
       <<"v","=","D","M","A","R","C","1",";"," ","p","=","r","e","j","e","c","t",";"," ","r","u","a","=","m","a","i","l","t","o",":","d","@","a",".","b">>
     >> >>),                                   \* "v=DMARC1; p=reject; rua=mailto:d@a.b"
     DnsOk(<< <<
       <<"v","=","D","M","A","R","C","1",";"," ","p","=","n","o","n","e">>
     >> >>)}                                   \* "v=DMARC1; p=none"

DKIMReplies ==
    {DnsErr,
     DnsOk(<<>>),
     DnsOk(<< <<
       <<"v","=","D","K","I","M","1",";"," ","k","=","r","s","a">>
     >> >>),                                   \* "v=DKIM1; k=rsa"
     DnsOk(<< <<
       <<"v","=","D","K","I","M","1",";"," ","k","=","r","s","a",";"," ">>,
       <<"p","=","M","I","G","f","M","A","0","G">>
     >> >>)}                                   \* "v=DKIM1; k=rsa; " "p=MIGfMA0G"

ReverseReplies == {DnsErr, DnsOk(<<>>), DnsOk(<<h_mail>>)}
ForwardReplies == {DnsErr, DnsOk(<<ip_1>>), DnsOk(<<ip_2>>)}

\* The selectors (by position in the probe list) under which the zone may
\* publish a DKIM key: 'google' and 's1'.
KeySelectors == {1, 5}
\* The replies the zone can give to the probe of selector i.
DKIMRepliesFor(i) ==
    {r \in DKIMReplies :
        (r.ok /\ Includes(FirstRecord(r.val), s_p_eq)) => i \in KeySelectors}

\* The checkers whose DNS outcomes `erred` and `oked` record: all but
\* checkDKIM, whose probe failures are swallowed and whose outcome is the
\* `found` array.
Tracked == Checkers \ {"DKIM"}

-----------------------------------------------------------------------------
(* The handler of POST /api/check (part_001) and its six checkers. *)

Call(by, kind, name) == [by |-> by, kind |-> kind, name |-> name]

\* The mutant issues the probes of all the selectors before the first await.
FirstCalls_allProbes(domain, ip) ==
    {Call("MX", "resolveMx", domain),
     Call("SPF", "resolveTxt", domain),
     Call("DMARC", "resolveTxt", s_dmarc_dot \o domain),
     Call("TXT", "resolveTxt", domain)}
    \cup {Call("DKIM", "resolveTxt", DkimHost(selectors[i], domain)) :
             i \in 1..Len(selectors)}
    \cup (IF NoIP(ip) THEN {} ELSE {Call("PTR", "reverse", ip)})

\* The DNS call each checker issues before its first await.
FirstCalls(domain, ip) ==
    {Call("MX", "resolveMx", domain),
     Call("SPF", "resolveTxt", domain),
     Call("DKIM", "resolveTxt", DkimHost(selectors[1], domain)),
     Call("DMARC", "resolveTxt", s_dmarc_dot \o domain),
     Call("TXT", "resolveTxt", domain)}
    \cup (IF NoIP(ip) THEN {} ELSE {Call("PTR", "reverse", ip)})

\* if (!clean) return res.status(400).json({ error: 'Domain required' })
BadRequest == [code |-> 400, body |-> [error |-> "Domain required"]]

\* A checker's async function has ended with `out`.
Settle(c, out) ==
    /\ chk' = [chk EXCEPT ![c] = IF out.threw THEN "threw" ELSE "done"]
    /\ result' = [result EXCEPT ![c] = IF out.threw THEN NoResult ELSE out.val]

\* The DNS call of checker c has settled with `reply`.
Note(c, reply) ==
    /\ erred' = IF reply.ok THEN erred ELSE erred \cup {c}
    /\ oked' = IF reply.ok THEN oked \cup {c} ELSE oked

\* The request arrives: the handler runs up to `await Promise.all([...])`,
\* and each checker it calls runs up to its first await.
PostCheck ==
    /\ pc = "idle"
    /\ draft = "part_001"
    /\ \E d \in RawDomains, ip \in IPs :
         LET c == IF d = Null THEN Null ELSE Some(CleanDomain(d[1]))
         IN  /\ req' = [domain |-> d, ip |-> ip]
             /\ clean' = c
             /\ IF ~Truthy(c)
                THEN /\ pc' = "responded"
                     /\ resp' = BadRequest
                     /\ UNCHANGED <<chk, result, dkimI, found, calls>>
                ELSE /\ pc' = "awaiting"
                     /\ chk' = [x \in Checkers |->
                                  IF x = "PTR" /\ NoIP(ip) THEN "done" ELSE "dns"]
                     /\ result' = [result EXCEPT !["PTR"] =
                                     IF NoIP(ip) THEN checkPTR_skipped.val
                                     ELSE NoResult]
                     /\ dkimI' = 1
                     /\ found' = <<>>
                     /\ calls' = FirstCalls(c[1], ip)
                     /\ UNCHANGED resp
    /\ UNCHANGED <<draft, ptrHost, erred, oked, pin, pout>>

MXReply ==
    /\ chk["MX"] = "dns"
    /\ \E reply \in MXReplies :
         /\ Settle("MX", checkMX_k(reply))
         /\ Note("MX", reply)
    /\ UNCHANGED <<draft, pc, req, clean, dkimI, found, ptrHost, calls, resp, pin, pout>>

SPFReply ==
    /\ chk["SPF"] = "dns"
    /\ \E reply \in SPFReplies :
         /\ Settle("SPF", checkSPF_k(reply))
         /\ Note("SPF", reply)
    /\ UNCHANGED <<draft, pc, req, clean, dkimI, found, ptrHost, calls, resp, pin, pout>>

\* One probe of checkDKIM settles; the loop issues the next probe, or the
\* function returns after the last selector.
DKIMReply ==
    /\ chk["DKIM"] = "dns"
    /\ \E reply \in DKIMRepliesFor(dkimI) :
         /\ LET fnd == dkimProbe_k(reply, selectors[dkimI], clean[1], found)
            IN  /\ found' = fnd
                /\ IF dkimI < Len(selectors)
                   THEN /\ dkimI' = dkimI + 1
                        /\ calls' = calls \cup
                             {Call("DKIM", "resolveTxt",
                                   DkimHost(selectors[dkimI + 1], clean[1]))}
                        /\ UNCHANGED <<chk, result>>
                   ELSE /\ Settle("DKIM", checkDKIM_return(fnd))
                        /\ UNCHANGED <<dkimI, calls>>
    /\ UNCHANGED <<draft, pc, req, clean, ptrHost, erred, oked, resp, pin, pout>>

DMARCReply ==
    /\ chk["DMARC"] = "dns"
    /\ \E reply \in DMARCReplies :
         /\ Settle("DMARC", checkDMARC_k(reply))
         /\ Note("DMARC", reply)
    /\ UNCHANGED <<draft, pc, req, clean, dkimI, found, ptrHost, calls, resp, pin, pout>>

\* dns.reverse(ip) settles.
PTRReverseReply ==
    /\ chk["PTR"] = "dns"
    /\ ptrHost = Null
    /\ \E reply \in ReverseReplies :
         /\ Note("PTR", reply)
         /\ IF ~reply.ok
            THEN /\ Settle("PTR", checkPTR_reverse_failed(reply))
                 /\ UNCHANGED <<ptrHost, calls>>
            ELSE LET hostname == FirstHostname(reply.val)
                 IN  IF hostname = Null
                     THEN /\ Settle("PTR", checkPTR_forward_failed(hostname))
                          /\ UNCHANGED <<ptrHost, calls>>
                     ELSE /\ ptrHost' = hostname
                          /\ calls' = calls \cup {Call("PTR", "resolve4", hostname[1])}
                          /\ UNCHANGED <<chk, result>>
    /\ UNCHANGED <<draft, pc, req, clean, dkimI, found, resp, pin, pout>>

\* dns.resolve4(hostname) settles.
PTRForwardReply ==
    /\ chk["PTR"] = "dns"
    /\ ptrHost # Null
    /\ \E reply \in ForwardReplies :
         /\ Note("PTR", reply)
         /\ IF ~reply.ok
            THEN Settle("PTR", checkPTR_forward_failed(ptrHost))
            ELSE Settle("PTR", checkPTR_forward_k(reply.val, ptrHost, req.ip))
    /\ UNCHANGED <<draft, pc, req, clean, dkimI, found, ptrHost, calls, resp, pin, pout>>

TXTReply ==
    /\ chk["TXT"] = "dns"
    /\ \E reply \in TXTReplies :
         /\ Settle("TXT", checkAllTXT_k(reply))
         /\ Note("TXT", reply)
    /\ UNCHANGED <<draft, pc, req, clean, dkimI, found, ptrHost, calls, resp, pin, pout>>

\* The mutant waits only for the checkers the reputation reads.
PromiseAllSettled_race(states) ==
    \A c \in DOMAIN states \cap {"SPF", "DKIM", "DMARC"} :
        states[c] \in {"done", "threw"}

\* Promise.all([...]) settles: it rejects as soon as one promise rejects and
\* resolves once every promise has resolved.
PromiseAllSettled(states) ==
    \/ \E c \in DOMAIN states : states[c] = "threw"
    \/ \A c \in DOMAIN states : states[c] = "done"

\* The body of res.json(...); the timestamp is left out.
Report ==
    [domain |-> clean[1],
     mx |-> result["MX"], spf |-> result["SPF"], dkim |-> result["DKIM"],
     dmarc |-> result["DMARC"], ptr |-> result["PTR"], txt |-> result["TXT"],
     reputation |-> Some(buildReputation(result["SPF"], result["DKIM"], result["DMARC"]))]

\* The handler resumes after `await Promise.all([...])`.  A rejection is
\* rethrown by the await; nothing catches it and no response is sent.
Respond ==
    /\ pc = "awaiting"
    /\ draft = "part_001"
    /\ PromiseAllSettled([c \in Checkers |-> chk[c]])
    /\ IF \E c \in Checkers : chk[c] = "threw"
       THEN /\ pc' = "crashed"
            /\ UNCHANGED resp
       ELSE /\ pc' = "responded"
            /\ resp' = [code |-> 200, body |-> Report]
    /\ UNCHANGED <<draft, req, clean, chk, result, dkimI, found, ptrHost, calls,
                   erred, oked, pin, pout>>

Init ==
    /\ HandlerIdle
    /\ draft = "part_001"
    /\ pin = NoInput
    /\ pout = NotRun

Next ==
    \/ PostCheck
    \/ MXReply
    \/ SPFReply
    \/ DKIMReply
    \/ DMARCReply
    \/ PTRReverseReply
    \/ PTRForwardReply
    \/ TXTReply
    \/ Respond

Spec == Init /\ [][Next]_vars

\* A step of a request under way: an outstanding DNS call returns or fails,
\* or the handler is resumed once Promise.all has settled.
HandlerStep ==
    \/ MXReply
    \/ SPFReply
    \/ DKIMReply
    \/ DMARCReply
    \/ PTRReverseReply
    \/ PTRForwardReply
    \/ TXTReply
    \/ Respond

\* While a DNS call is outstanding, one of the outstanding calls eventually
\* settles; the event loop resumes the handler when it can go on.
SpecLive == Init /\ [][Next]_vars /\ WF_vars(HandlerStep)

-----------------------------------------------------------------------------
(* The draft src/server.js: its helpers, checkers and handler.  It has      *)
(* five checkers and no reputation; dkimKeyType and dkimKeySize above are   *)
(* its detectDKIMKeyType and estimateDKIMKeySize, line for line.            *)

\* new RegExp(`\\b${m}`, 'g') over ['include:', 'a', 'mx', 'ptr', 'exists:']
countSPFLookups_srv(spfRecord) ==
    CountWordStart(spfRecord, s_include)
    + CountWordStart(spfRecord, <<"a">>)
    + CountWordStart(spfRecord, s_mx)
    + CountWordStart(spfRecord, s_ptr)
    + CountWordStart(spfRecord, s_exists)

parseSPFPolicy(spfRecord) ==
    IF Includes(spfRecord, s_minus_all) THEN "-all (Fail)"
    ELSE IF Includes(spfRecord, s_tilde_all) THEN "~all (SoftFail)"
    ELSE IF Includes(spfRecord, s_quest_all) THEN "?all (Neutral)"
    ELSE IF Includes(spfRecord, s_plus_all) THEN "+all (Pass)"
    ELSE "Unknown"

s_google_com == <<"g","o","o","g","l","e",".","c","o","m">>       \* "google.com"
s_outlook_com == <<"o","u","t","l","o","o","k",".","c","o","m">>  \* "outlook.com"
s_zoho_com == <<"z","o","h","o",".","c","o","m">>                 \* "zoho.com"
s_protonmail == <<"p","r","o","t","o","n","m","a","i","l">>       \* "protonmail"

\* exchanges.some(e => e.includes(p))
SomeIncludes(exchanges, p) == \E i \in 1..Len(exchanges) : Includes(exchanges[i], p)

detectEmailProvider(mxRecords) ==
    LET exchanges == [i \in 1..Len(mxRecords) |-> ToLowerCase(mxRecords[i].exchange)]
    IN  IF SomeIncludes(exchanges, s_google_com) THEN "Google Workspace"
        \* 'outlook.com' || 'protection.outlook.com': the second contains the first
        ELSE IF SomeIncludes(exchanges, s_outlook_com) THEN "Microsoft 365"
        ELSE IF SomeIncludes(exchanges, s_zoho_com) THEN "Zoho Mail"
        ELSE IF SomeIncludes(exchanges, s_protonmail) THEN "Proton Mail"
        ELSE "Unknown / Custom"

detectMultipleProviders(mxRecords) ==
    LET exchanges == [i \in 1..Len(mxRecords) |-> ToLowerCase(mxRecords[i].exchange)]
        providers ==
            (IF SomeIncludes(exchanges, s_google_com) THEN {"Google"} ELSE {})
            \cup (IF SomeIncludes(exchanges, s_outlook_com) THEN {"Microsoft"} ELSE {})
            \cup (IF SomeIncludes(exchanges, s_zoho_com) THEN {"Zoho"} ELSE {})
    IN  Cardinality(providers) > 1

checkMX_srv_k(reply) ==
    IF ~reply.ok
    THEN Returned([status |-> "FAIL", records |-> <<>>, provider |-> "None",
                   issues |-> <<reply.msg>>])
    ELSE
      LET records == SortByPriority(reply.val)
          issues == IF detectMultipleProviders(records)
                    THEN <<"Multiple email providers detected">> ELSE <<>>
      IN  Returned([status |-> IF Len(issues) > 0 THEN "WARN" ELSE "PASS",
                    records |-> records,
                    provider |-> detectEmailProvider(records),
                    issues |-> issues])

checkSPF_srv_k(reply) ==
    IF ~reply.ok
    THEN Returned([status |-> "FAIL", record |-> Null, policy |-> "null",
                   lookupCount |-> 0, issues |-> <<reply.msg>>])
    ELSE
      LET spf == extractSPF(reply.val)
      IN  IF spf = Null
          THEN Returned([status |-> "FAIL", record |-> Null, policy |-> "null",
                         lookupCount |-> 0, issues |-> <<"No SPF record found">>])
          ELSE
            LET lookupCount == countSPFLookups_srv(spf[1].record)
                policy == parseSPFPolicy(spf[1].record)
                i1 == IF spf[1].multiple
                      THEN <<"Multiple SPF records detected">> ELSE <<>>
                i2 == IF lookupCount > 10
                      THEN <<"SPF lookup count (" \o ToString(lookupCount)
                             \o ") exceeds 10">>
                      ELSE <<>>
                i3 == IF policy \in {"?all (Neutral)", "+all (Pass)"}
                      THEN <<"SPF policy is too permissive">> ELSE <<>>
                issues == i1 \o i2 \o i3
            IN  Returned([status |-> IF Len(issues) > 0 THEN "WARN" ELSE "PASS",
                          record |-> Some(spf[1].record),
                          policy |-> policy,
                          lookupCount |-> lookupCount,
                          issues |-> issues])

\* const selectors = [...] of checkDKIM (server.js).
selectors_srv == <<
    <<"g","o","o","g","l","e">>,                  \* 'google'
    <<"s","e","l","e","c","t","o","r","1">>,      \* 'selector1'
    <<"s","e","l","e","c","t","o","r","2">>,      \* 'selector2'
    <<"d","e","f","a","u","l","t">>,              \* 'default'
    <<"d","k","i","m">>,                          \* 'dkim'
    <<"s","1">>,                                  \* 's1'
    <<"s","2">> >>                                \* 's2'

\* The loop body of checkDKIM (server.js): recs[0].join('') throws on an
\* empty answer, inside the try, and the probe counts as a miss.
dkimProbe_srv_k(reply, s, fnd) ==
    IF ~reply.ok \/ reply.val = <<>> THEN fnd
    ELSE
      LET record == Flatten(reply.val[1])
      IN  IF Includes(record, s_p_eq)
          THEN Append(fnd, [selector |-> s,
                            keyType |-> dkimKeyType(record),
                            keySize |-> dkimKeySize(record)])
          ELSE fnd

\* checkDMARC (server.js): recs[0].join('') throws on an empty answer, inside
\* the try, and the catch reports it like a failed lookup.
checkDMARC_srv_k(reply) ==
    IF ~reply.ok \/ reply.val = <<>>
    THEN Returned([status |-> "FAIL", record |-> Null, policy |-> Null,
                   issues |-> <<"No DMARC record found">>])
    ELSE
      LET record == Flatten(reply.val[1])
          policy == OrDefault(TagValue(record, s_p_eq), s_none)
          rua == TagValue(record, s_rua_eq)
          i1 == IF policy = s_none THEN <<"DMARC policy is none">> ELSE <<>>
          i2 == IF rua = Null THEN <<"No DMARC rua configured">> ELSE <<>>
          issues == i1 \o i2
      IN  Returned([status |-> IF Len(issues) > 0 THEN "WARN" ELSE "PASS",
                    record |-> Some(record),
                    policy |-> Some(policy),
                    rua |-> rua,
                    issues |-> issues])

checkPTR_srv_skipped ==
    Returned([status |-> "SKIPPED", issues |-> <<"No IP provided">>])

\* The catch of checkPTR (server.js): either lookup failed with `msg`.
checkPTR_srv_failed(msg) ==
    Returned([status |-> "FAIL", hostname |-> Null, fcRdns |-> "false",
              issues |-> <<msg>>])

\* checkPTR (server.js) when dns.resolve(hostname) has answered.
checkPTR_srv_forward_k(addresses, hostname, ip) ==
    LET fcRdns == \E i \in 1..Len(addresses) : addresses[i] = ip
    IN  Returned([status |-> IF fcRdns THEN "PASS" ELSE "FAIL",
                  hostname |-> hostname,
                  fcRdns |-> IF fcRdns THEN "true" ELSE "false",
                  issues |-> IF fcRdns THEN <<>> ELSE <<"FC-rDNS failed">>])

\* The message of the TypeError dns.resolve(undefined) throws.
InvalidArgMsg == "The \"name\" argument must be of type string"

\* Requests of SpecServer: a missing domain, '', ' ', and a domain that
\* needs cleaning.
RawDomains_srv == {Null, Some(<<>>), Some(<<" ">>), Some(d_wrapped)}

FirstCalls_srv(domain, ip) ==
    {Call("MX", "resolveMx", domain),
     Call("SPF", "resolveTxt", domain),
     Call("DKIM", "resolveTxt", DkimHost(selectors_srv[1], domain)),
     Call("DMARC", "resolveTxt", s_dmarc_dot \o domain)}
    \cup (IF NoIP(ip) THEN {} ELSE {Call("PTR", "reverse", ip)})

\* if (!domain) return res.status(400).json({ error: 'Domain is required' })
BadRequest_srv == [code |-> 400, body |-> [error |-> "Domain is required"]]

\* The request arrives (server.js): the presence test is on the raw domain,
\* and the cleaned domain goes to the checkers untested.
PostCheck_srv ==
    /\ pc = "idle"
    /\ draft = "server.js"
    /\ \E d \in RawDomains_srv, ip \in IPs :
         /\ req' = [domain |-> d, ip |-> ip]
         /\ IF ~Truthy(d)
            THEN /\ pc' = "responded"
                 /\ resp' = BadRequest_srv
                 /\ UNCHANGED <<clean, chk, result, dkimI, found, calls>>
            ELSE /\ clean' = Some(CleanDomain(d[1]))
                 /\ pc' = "awaiting"
                 /\ chk' = [x \in Checkers |->
                              IF x = "TXT" THEN "idle"
                              ELSE IF x = "PTR" /\ NoIP(ip) THEN "done"
                              ELSE "dns"]
                 /\ result' = [result EXCEPT !["PTR"] =
                                 IF NoIP(ip) THEN checkPTR_srv_skipped.val
                                 ELSE NoResult]
                 /\ dkimI' = 1
                 /\ found' = <<>>
                 /\ calls' = FirstCalls_srv(CleanDomain(d[1]), ip)
                 /\ UNCHANGED resp
    /\ UNCHANGED <<draft, ptrHost, erred, oked, pin, pout>>

MXReply_srv ==
    /\ chk["MX"] = "dns"
    /\ \E reply \in MXReplies :
         /\ Settle("MX", checkMX_srv_k(reply))
         /\ Note("MX", reply)
    /\ UNCHANGED <<draft, pc, req, clean, dkimI, found, ptrHost, calls, resp, pin, pout>>

SPFReply_srv ==
    /\ chk["SPF"] = "dns"
    /\ \E reply \in SPFReplies :
         /\ Settle("SPF", checkSPF_srv_k(reply))
         /\ Note("SPF", reply)
    /\ UNCHANGED <<draft, pc, req, clean, dkimI, found, ptrHost, calls, resp, pin, pout>>

DKIMReply_srv ==
    /\ chk["DKIM"] = "dns"
    /\ \E reply \in DKIMRepliesFor(dkimI) :
         /\ LET fnd == dkimProbe_srv_k(reply, selectors_srv[dkimI], found)
            IN  /\ found' = fnd
                /\ IF dkimI < Len(selectors_srv)
                   THEN /\ dkimI' = dkimI + 1
                        /\ calls' = calls \cup
                             {Call("DKIM", "resolveTxt",
                                   DkimHost(selectors_srv[dkimI + 1], clean[1]))}
                        /\ UNCHANGED <<chk, result>>
                   ELSE /\ Settle("DKIM", checkDKIM_return(fnd))
                        /\ UNCHANGED <<dkimI, calls>>
    /\ UNCHANGED <<draft, pc, req, clean, ptrHost, erred, oked, resp, pin, pout>>

DMARCReply_srv ==
    /\ chk["DMARC"] = "dns"
    /\ \E reply \in DMARCReplies :
         /\ Settle("DMARC", checkDMARC_srv_k(reply))
         /\ Note("DMARC", reply)
    /\ UNCHANGED <<draft, pc, req, clean, dkimI, found, ptrHost, calls, resp, pin, pout>>

PTRReverseReply_srv ==
    /\ chk["PTR"] = "dns"
    /\ ptrHost = Null
    /\ \E reply \in ReverseReplies :
         /\ Note("PTR", reply)
         /\ IF ~reply.ok
            THEN /\ Settle("PTR", checkPTR_srv_failed(reply.msg))
                 /\ UNCHANGED <<ptrHost, calls>>
            ELSE LET hostname == FirstHostname(reply.val)
                 IN  IF hostname = Null
                     THEN /\ Settle("PTR", checkPTR_srv_failed(InvalidArgMsg))
                          /\ UNCHANGED <<ptrHost, calls>>
                     ELSE /\ ptrHost' = hostname
                          /\ calls' = calls \cup {Call("PTR", "resolve", hostname[1])}
                          /\ UNCHANGED <<chk, result>>
    /\ UNCHANGED <<draft, pc, req, clean, dkimI, found, resp, pin, pout>>

PTRForwardReply_srv ==
    /\ chk["PTR"] = "dns"
    /\ ptrHost # Null
    /\ \E reply \in ForwardReplies :
         /\ Note("PTR", reply)
         /\ IF ~reply.ok
            THEN Settle("PTR", checkPTR_srv_failed(reply.msg))
            ELSE Settle("PTR", checkPTR_srv_forward_k(reply.val, ptrHost, req.ip))
    /\ UNCHANGED <<draft, pc, req, clean, dkimI, found, ptrHost, calls, resp, pin, pout>>

\* res.json({ domain: cleanDomain, mx, spf, dkim, dmarc, ptr })
Report_srv ==
    [domain |-> clean[1],
     mx |-> result["MX"], spf |-> result["SPF"], dkim |-> result["DKIM"],
     dmarc |-> result["DMARC"], ptr |-> result["PTR"]]

Respond_srv ==
    /\ pc = "awaiting"
    /\ draft = "server.js"
    /\ PromiseAllSettled([c \in Five |-> chk[c]])
    /\ IF \E c \in Five : chk[c] = "threw"
       THEN /\ pc' = "crashed"
            /\ UNCHANGED resp
       ELSE /\ pc' = "responded"
            /\ resp' = [code |-> 200, body |-> Report_srv]
    /\ UNCHANGED <<draft, req, clean, chk, result, dkimI, found, ptrHost, calls,
                   erred, oked, pin, pout>>

InitServer ==
    /\ HandlerIdle
    /\ draft = "server.js"
    /\ pin = NoInput
    /\ pout = NotRun

NextServer ==
    \/ PostCheck_srv
    \/ MXReply_srv
    \/ SPFReply_srv
    \/ DKIMReply_srv
    \/ DMARCReply_srv
    \/ PTRReverseReply_srv
    \/ PTRForwardReply_srv
    \/ Respond_srv

SpecServer == InitServer /\ [][NextServer]_vars

HandlerStep_srv ==
    \/ MXReply_srv
    \/ SPFReply_srv
    \/ DKIMReply_srv
    \/ DMARCReply_srv
    \/ PTRReverseReply_srv
    \/ PTRForwardReply_srv
    \/ Respond_srv

SpecServerLive == InitServer /\ [][NextServer]_vars /\ WF_vars(HandlerStep_srv)

-----------------------------------------------------------------------------
(* SpecSPF: checkSPF applied to bounded TXT answers.                       *)

SPFTerm(kind, qual, text) == [kind |-> kind, qual |-> qual, text |-> text]

t_include == SPFTerm("include", "", <<"i","n","c","l","u","d","e",":","x",".","y">>)
t_a == SPFTerm("a", "", <<"a">>)
t_a_dom == SPFTerm("a", "", <<"a",":","x",".","y">>)
t_mx == SPFTerm("mx", "", <<"m","x">>)
t_mx_dom == SPFTerm("mx", "", <<"m","x",":","x",".","y">>)
t_ptr == SPFTerm("ptr", "", <<"p","t","r">>)
t_exists == SPFTerm("exists", "", <<"e","x","i","s","t","s",":","x",".","y">>)
t_ip4 == SPFTerm("ip4", "", <<"i","p","4",":","1","9","2",".","0",".","2",".","1">>)
t_ip6 == SPFTerm("ip6", "", <<"i","p","6",":","2","0","0","1",":","d","b","8",":",":","1">>)
t_fail == SPFTerm("all", "-", s_minus_all)
t_softfail == SPFTerm("all", "~", s_tilde_all)
t_neutral == SPFTerm("all", "?", s_quest_all)
t_pass == SPFTerm("all", "+", s_plus_all)

SPFTerms == {t_include, t_a, t_a_dom, t_mx, t_mx_dom, t_ptr, t_exists,
             t_ip4, t_ip6, t_fail, t_softfail, t_neutral, t_pass}

\* The terms of a record after the v=spf1 tag.
TermsOf(in) == [i \in 1..in.incl |-> t_include] \o in.extra

RECURSIVE JoinTerms(_)
JoinTerms(terms) ==
    IF terms = <<>> THEN <<>>
    ELSE <<" ">> \o Head(terms).text \o JoinTerms(Tail(terms))

\* The text of the record: the tag and the terms, separated by spaces.
RecordText(in) == s_vspf1 \o JoinTerms(TermsOf(in))

OtherTxt == <<"M","S","=","m","s","1">>                    \* "MS=ms1"
SecondSPF == <<"v","=","s","p","f","1"," ","-","a","l","l">>   \* "v=spf1 -all"

\* The reply of resolveTxt(domain): one TXT record is an array of chunks.
SPFAnswer(in) ==
    LET rec == RecordText(in)
    IN  CASE in.shape = "single" -> DnsOk(<< <<rec>> >>)
          [] in.shape = "chunked" ->
                DnsOk(<< <<SubSeq(rec, 1, 3), SubSeq(rec, 4, Len(rec))>> >>)
          [] in.shape = "dup" -> DnsOk(<< <<rec>>, <<SecondSPF>> >>)
          [] in.shape = "after" -> DnsOk(<< <<OtherTxt>>, <<rec>> >>)
          [] in.shape = "nospf" -> DnsOk(<< <<OtherTxt>> >>)
          [] in.shape = "empty" -> DnsOk(<<>>)
          [] OTHER -> DnsErr

SeqsUpTo(S, n) == UNION {[1..k -> S] : k \in 0..n}

\* The numbers of include: terms tried: none, one, and those around the
\* limit of ten lookups.
InclCounts == {0, 1} \cup (MaxIncl - 3)..MaxIncl

SPFInputs ==
    [kind : {"spf"}, incl : InclCounts, extra : SeqsUpTo(SPFTerms, MaxExtra),
     shape : {"single", "chunked", "dup", "after"}]
    \cup [kind : {"spf"}, incl : {0}, extra : {<<>>},
          shape : {"nospf", "empty", "err"}]

InitSPF ==
    /\ HandlerIdle
    /\ draft \in {"part_001", "server.js"}
    /\ pin \in SPFInputs
    /\ pout = NotRun

\* checkSPF of part_001 runs on the answer.
RunCheckSPF ==
    /\ pin.kind = "spf"
    /\ draft = "part_001"
    /\ pout = NotRun
    /\ pout' = checkSPF_k(SPFAnswer(pin))
    /\ UNCHANGED <<pin, handlerVars>>

\* checkSPF of server.js runs on the answer.
RunCheckSPF_srv ==
    /\ pin.kind = "spf"
    /\ draft = "server.js"
    /\ pout = NotRun
    /\ pout' = checkSPF_srv_k(SPFAnswer(pin))
    /\ UNCHANGED <<pin, handlerVars>>

NextSPF ==
    \/ RunCheckSPF
    \/ RunCheckSPF_srv

SpecSPF == InitSPF /\ [][NextSPF]_vars

\* The checker has run on an answer that holds an SPF record.
SPFFound == pin.kind = "spf" /\ pout # NotRun /\ pout.val.record # Null

AllQuals(in) == {in.extra[i].qual : i \in {j \in 1..Len(in.extra) : in.extra[j].kind = "all"}}
AllPositions(in) == {j \in 1..Len(in.extra) : in.extra[j].kind = "all"}

\* The policy a label of either draft stands for.
PolicyKind(policy) ==
    CASE policy \in {P_Fail, "-all (Fail)"} -> "fail"
      [] policy \in {P_SoftFail, "~all (SoftFail)"} -> "softfail"
      [] policy \in {P_Neutral, "?all (Neutral)"} -> "neutral"
      [] policy \in {P_Pass, "+all (Pass)"} -> "pass"
      [] policy = P_Unknown -> "unknown"

QualPolicy(q) ==
    CASE q = "-" -> "fail"
      [] q = "~" -> "softfail"
      [] q = "?" -> "neutral"
      [] q = "+" -> "pass"

\* The policy by rank of qualifier: - before ~ before ? before +.
PrecedencePolicy(in) ==
    LET qs == AllQuals(in)
    IN  IF "-" \in qs THEN "fail"
        ELSE IF "~" \in qs THEN "softfail"
        ELSE IF "?" \in qs THEN "neutral"
        ELSE IF "+" \in qs THEN "pass"
        ELSE "unknown"

\* The policy of the rightmost `all` term.
RightmostPolicy(in) ==
    LET ps == AllPositions(in)
        last == CHOOSE j \in ps : \A k \in ps : k <= j
    IN  QualPolicy(in.extra[last].qual)

LookupKinds == {"include", "a", "mx", "ptr", "exists"}
\* The number of terms that are lookup mechanisms.
LookupTerms(in) ==
    Cardinality({i \in 1..Len(TermsOf(in)) : TermsOf(in)[i].kind \in LookupKinds})

\* The number of terms of the given kinds.
CountKinds(in, kinds) ==
    Cardinality({i \in 1..Len(TermsOf(in)) : TermsOf(in)[i].kind \in kinds})

\* C7: the reported policy is that of the rightmost `all` term of the
\* record (as claimed).
C7_RightmostAllGoverns ==
    (SPFFound /\ AllPositions(pin) # {}) =>
      PolicyKind(pout.val.policy) = RightmostPolicy(pin)

\* C7 (amended): the reported policy is fixed by which qualified `all`
\* terms occur in the record, wherever they stand: fail if -all occurs,
\* else softfail if ~all occurs, else neutral if ?all occurs, else pass if
\* +all occurs, else unknown.
C7_PrecedenceGoverns ==
    SPFFound => PolicyKind(pout.val.policy) = PrecedencePolicy(pin)

\* The record `... -all ~all` (or the like) was checked: the rightmost `all`
\* term is not the one that governs.
C7_Witness ==
    /\ SPFFound
    /\ AllPositions(pin) # {}
    /\ RightmostPolicy(pin) = "softfail"
    /\ PolicyKind(pout.val.policy) = "fail"

\* The conditions of the SPF checker that hold for the answer, taking
\* `permissive` as the test on the policy.
SPFConditions(permissive) ==
    (IF pin.shape = "dup" THEN {"multiple"} ELSE {})
    \cup (IF pout.val.lookupCount > 10 THEN {"lookups"} ELSE {})
    \cup (IF permissive THEN {"permissive"} ELSE {})

\* Status and issues follow the conditions: WARN iff one holds, and one
\* distinct issue per condition that holds.
SPFStatusFollows(conds) ==
    /\ pout.val.status = IF conds # {} THEN "WARN" ELSE "PASS"
    /\ Len(pout.val.issues) = Cardinality(conds)
    /\ Cardinality(Range(pout.val.issues)) = Cardinality(conds)

\* C8: with an SPF record found, the status is WARN iff there are several
\* SPF records, or lookupCount > 10, or the policy is neutral or pass, a
\* record with no `all` term counting as pass (as claimed).
C8_WarnIffAbsentIsPass ==
    SPFFound =>
      SPFStatusFollows(SPFConditions(
          \/ PolicyKind(pout.val.policy) \in {"neutral", "pass"}
          \/ AllPositions(pin) = {}))

\* C8 (amended): with an SPF record found, the status is WARN iff there are
\* several SPF records, or lookupCount > 10, or the policy is neutral or
\* pass; a record with no `all` term has policy unknown, which is not
\* flagged; otherwise the status is PASS, and the issues list holds exactly
\* one distinct string per condition that holds.
C8_WarnIff ==
    SPFFound =>
      /\ SPFStatusFollows(SPFConditions(
              PolicyKind(pout.val.policy) \in {"neutral", "pass"}))
      /\ AllPositions(pin) = {} => PolicyKind(pout.val.policy) = "unknown"

\* A lone record with no `all` term and few lookups was checked and passed.
C8_Witness ==
    /\ SPFFound
    /\ AllPositions(pin) = {}
    /\ pin.shape # "dup"
    /\ pout.val.lookupCount <= 10
    /\ pout.val.status = "PASS"

\* C9: lookupCount is the number of terms that are lookup mechanisms
\* (include:, a bare or with a domain, mx, ptr, exists:); no other term
\* counts.
C9_LookupCount ==
    SPFFound => pout.val.lookupCount = LookupTerms(pin)

-----------------------------------------------------------------------------
(* SpecKey: the key-size estimate applied to keys of growing length.       *)

s_dkim_tag == <<"v","=","D","K","I","M","1",";"," ">>          \* "v=DKIM1; "
s_k_rsa == <<"k","=","r","s","a",";"," ">>                     \* "k=rsa; "
s_t_s == <<";"," ","t","=","s">>                               \* "; t=s"

KeyAlphabet == <<"M", "i", "9", "+", "/", "=">>
\* A base64 value of n characters.
KeyOfLen(n) == [i \in 1..n |-> KeyAlphabet[(i % Len(KeyAlphabet)) + 1]]

KeyForms == {"bare", "tagged", "ed25519", "trailing"}
\* A DKIM record whose p= tag holds n characters.
KeyRecord(form, n) ==
    CASE form = "bare" -> s_p_eq \o KeyOfLen(n)
      [] form = "tagged" -> s_dkim_tag \o s_k_rsa \o s_p_eq \o KeyOfLen(n)
      [] form = "ed25519" ->
            s_dkim_tag \o s_k_ed25519 \o <<";", " ">> \o s_p_eq \o KeyOfLen(n)
      [] form = "trailing" -> s_dkim_tag \o s_p_eq \o KeyOfLen(n) \o s_t_s

\* The place of a bucket in the order: a literal bit count by its value,
\* below 1024-bit, below 2048-bit.
Rank(size) ==
    CHOOSE b \in 0..2048 :
        size \in {ToString(b) \o "-bit", "~" \o ToString(b) \o "-bit"}

Max(a, b) == IF a >= b THEN a ELSE b

\* The highest rank among the buckets of the keys measured so far.
RankSoFar == IF pout = NotRun THEN 0 ELSE Max(pout.val.below, Rank(pout.val.size))

InitKey ==
    /\ HandlerIdle
    /\ draft \in {"part_001", "part_000"}
    /\ pin \in [kind : {"key"}, form : KeyForms, len : {0}]
    /\ pout = NotRun

\* dkimKeySize (part_001; estimateDKIMKeySize of server.js is the same code)
\* measures the key one character longer than the last.
MeasureKey ==
    /\ pin.kind = "key"
    /\ draft = "part_001"
    /\ pin.len < MaxKeyLen
    /\ pin' = [pin EXCEPT !.len = pin.len + 1]
    /\ pout' = Returned([size |-> dkimKeySize(KeyRecord(pin.form, pin.len + 1)),
                         below |-> RankSoFar])
    /\ UNCHANGED handlerVars

\* estimateDKIMKeySize (part_000) measures the next key.
MeasureKey_p0 ==
    /\ pin.kind = "key"
    /\ draft = "part_000"
    /\ pin.len < MaxKeyLen
    /\ pin' = [pin EXCEPT !.len = pin.len + 1]
    /\ pout' = Returned([size |-> estimateDKIMKeySize_p0(KeyRecord(pin.form, pin.len + 1)),
                         below |-> RankSoFar])
    /\ UNCHANGED handlerVars

NextKey ==
    \/ MeasureKey
    \/ MeasureKey_p0

SpecKey == InitKey /\ [][NextKey]_vars

\* C10: the bucket of a key is never below the bucket of any shorter key,
\* the buckets ordered as literal bit count (by value) < 1024-bit < 2048-bit.
C10_KeySizeMonotonic ==
    (pin.kind = "key" /\ pout # NotRun) => Rank(pout.val.size) >= pout.val.below

\* The key that first reaches 2048-bit, every shorter key being at most
\* 1024-bit.
C10_Witness ==
    /\ pin.kind = "key"
    /\ pout # NotRun
    /\ pout.val.size = "2048-bit"
    /\ pout.val.below = 1024

-----------------------------------------------------------------------------
(* SpecRep: buildReputation applied to the results of checkSPF, checkDKIM  *)
(* and checkDMARC on bounded DNS answers.                                  *)

RepSPF == {"err", "nospf", "fail", "softfail", "neutral", "pass", "noall"}
RepSPFAnswer(k) ==
    LET in(extra, shape) ==
            [kind |-> "spf", incl |-> 1, extra |-> extra, shape |-> shape]
    IN  CASE k = "err" -> SPFAnswer(in(<<>>, "err"))
          [] k = "nospf" -> SPFAnswer(in(<<>>, "nospf"))
          [] k = "fail" -> SPFAnswer(in(<<t_fail>>, "single"))
          [] k = "softfail" -> SPFAnswer(in(<<t_softfail>>, "single"))
          [] k = "neutral" -> SPFAnswer(in(<<t_neutral>>, "single"))
          [] k = "pass" -> SPFAnswer(in(<<t_pass>>, "single"))
          [] k = "noall" -> SPFAnswer(in(<<t_ip4>>, "single"))

\* Keys a selector may publish: a short RSA key, a 1024-bit and a 2048-bit
\* RSA key, and an Ed25519 key.
RepKeys == {[form |-> "tagged", len |-> 100], [form |-> "tagged", len |-> 172],
            [form |-> "tagged", len |-> 344], [form |-> "ed25519", len |-> 44]}
\* The first selectors of the list publish the keys of `keys`, in order; the
\* probes of the others fail.
RepDKIMAnswer(keys, i) ==
    IF i <= Len(keys)
    THEN DnsOk(<< <<KeyRecord(keys[i].form, keys[i].len)>> >>)
    ELSE DnsErr

RepDMARC == {"err", "empty", "notag", "none", "quarantine", "reject"}
s_dmarc1 == <<"v","=","D","M","A","R","C","1">>                \* "v=DMARC1"
s_quarantine == <<"q","u","a","r","a","n","t","i","n","e">>    \* "quarantine"
s_reject == <<"r","e","j","e","c","t">>                        \* "reject"
s_rua == <<";"," ","r","u","a","=","m","a","i","l","t","o",":","d","@","a",".","b">>
RepDMARCAnswer(k) ==
    LET p(v) == DnsOk(<< <<s_dmarc1 \o <<";", " ">> \o s_p_eq \o v>> >>)
    IN  CASE k = "err" -> DnsErr
          [] k = "empty" -> DnsOk(<<>>)
          [] k = "notag" -> DnsOk(<< <<s_dmarc1>> >>)
          [] k = "none" -> p(s_none)
          [] k = "quarantine" -> p(s_quarantine)
          [] k = "reject" -> p(s_reject \o s_rua)

RECURSIVE checkDKIM_loop(_, _, _, _)
\* The for loop of checkDKIM from selector i on, replies[i] being the answer
\* to the probe of selector i.
checkDKIM_loop(replies, i, domain, fnd) ==
    IF i > Len(selectors) THEN fnd
    ELSE checkDKIM_loop(replies, i + 1, domain,
                        dkimProbe_k(replies[i], selectors[i], domain, fnd))

RepDomain == <<"a", ".", "b">>

InitRep ==
    /\ HandlerIdle
    /\ draft = "part_001"
    /\ pin \in [kind : {"rep"}, spf : RepSPF, dkim : SeqsUpTo(RepKeys, 2),
                dmarc : RepDMARC]
    /\ pout = NotRun

\* The three checkers run and buildReputation is applied to their results.
RunReputation ==
    /\ pin.kind = "rep"
    /\ pout = NotRun
    /\ LET spf == checkSPF_k(RepSPFAnswer(pin.spf)).val
           dkim == checkDKIM_return(checkDKIM_loop(
                       [i \in 1..Len(selectors) |-> RepDKIMAnswer(pin.dkim, i)],
                       1, RepDomain, <<>>)).val
           dmarc == checkDMARC_k(RepDMARCAnswer(pin.dmarc)).val
       IN  pout' = Returned([spf |-> spf, dkim |-> dkim, dmarc |-> dmarc,
                             reputation |-> buildReputation(spf, dkim, dmarc)])
    /\ UNCHANGED <<pin, handlerVars>>

NextRep == RunReputation

SpecRep == InitRep /\ [][NextRep]_vars

\* buildReputation has been applied.
Reputed == pin.kind = "rep" /\ pout # NotRun

\* The SPF policy of a result, "null" when no record was found.
SpfPolicyOf(spf) == IF spf.record = Null THEN "null" ELSE PolicyKind(spf.policy)
\* The DMARC policy of a result, Null when no record was found.
DmarcPolicyOf(dmarc) == IF dmarc.parsed = Null THEN Null ELSE Some(dmarc.parsed[1].policy)
\* Some selector of the result has the key size bucket 1024-bit.
Has1024(dkim) ==
    \E i \in 1..Len(dkim.selectors) : dkim.selectors[i].keySize = "1024-bit"

\* C5: the score is 100, minus 20 if the SPF policy is not fail or
\* softfail, minus 30 if there is no DKIM selector (else minus 10 if some
\* selector is 1024-bit), minus 20 if the DMARC policy is none; SPF pass
\* with no DKIM and DMARC none scores 30 (as claimed).
C5_ScoreAsClaimed ==
    Reputed =>
      LET r == pout.val
      IN  r.reputation.score =
            100
            - (IF SpfPolicyOf(r.spf) \notin {"fail", "softfail"} THEN 20 ELSE 0)
            - (IF Len(r.dkim.selectors) = 0 THEN 30
               ELSE IF Has1024(r.dkim) THEN 10 ELSE 0)
            - (IF DmarcPolicyOf(r.dmarc) = Some(s_none) THEN 20 ELSE 0)

\* C5 (amended): the score is 100, minus 25 if no SPF record was found
\* (else minus 20 if the SPF policy is neutral or pass), minus 30 if there
\* is no DKIM selector (the key size deducts nothing), minus 25 if no DMARC
\* record was found (else minus 15 if the DMARC policy is none); SPF pass
\* with no DKIM and DMARC none scores 35.
C5_Score ==
    Reputed =>
      LET r == pout.val
      IN  /\ r.reputation.score =
               100
               - (IF r.spf.record = Null THEN 25
                  ELSE IF SpfPolicyOf(r.spf) \in {"neutral", "pass"} THEN 20 ELSE 0)
               - (IF Len(r.dkim.selectors) = 0 THEN 30 ELSE 0)
               - (IF r.dmarc.record \in {Null, Some(<<>>)} THEN 25
                  ELSE IF DmarcPolicyOf(r.dmarc) = Some(s_none) THEN 15 ELSE 0)
          /\ (pin.spf = "pass" /\ pin.dkim = <<>> /\ pin.dmarc = "none")
               => r.reputation.score = 35

\* SPF pass, no DKIM selector and DMARC none have been scored.
C5_Witness ==
    /\ Reputed
    /\ SpfPolicyOf(pout.val.spf) = "pass"
    /\ pout.val.dkim.selectors = <<>>
    /\ DmarcPolicyOf(pout.val.dmarc) = Some(s_none)

\* C6: the level follows from the score alone: Good iff score >= 80, Medium
\* iff 50 <= score < 80, High Risk iff score < 50; SPF fail, one 2048-bit
\* RSA selector and DMARC reject score 100, Good.
C6_Level ==
    Reputed =>
      LET rep == pout.val.reputation
      IN  /\ rep.level = "Good" <=> rep.score >= 80
          /\ rep.level = "Medium" <=> (50 <= rep.score /\ rep.score < 80)
          /\ rep.level = "High Risk" <=> rep.score < 50
          /\ ( /\ SpfPolicyOf(pout.val.spf) = "fail"
               /\ Len(pout.val.dkim.selectors) = 1
               /\ pout.val.dkim.selectors[1].keySize = "2048-bit"
               /\ pout.val.dkim.selectors[1].keyType = "RSA"
               /\ DmarcPolicyOf(pout.val.dmarc) = Some(s_reject) )
             => rep.score = 100 /\ rep.level = "Good"

\* SPF fail, one 2048-bit RSA selector and DMARC reject have been scored.
C6_Witness ==
    /\ Reputed
    /\ pin.spf = "fail"
    /\ pin.dmarc = "reject"
    /\ Len(pout.val.dkim.selectors) = 1
    /\ pout.val.dkim.selectors[1].keySize = "2048-bit"
    /\ pout.val.dkim.selectors[1].keyType = "RSA"
    /\ pout.val.reputation.level = "Good"

-----------------------------------------------------------------------------
(* checkDKIM of the draft part_000. *)

\* const commonSelectors = [...] of checkDKIM (part_000).
selectors_p0 == <<
    <<"g","o","o","g","l","e">>,                  \* 'google'
    <<"s","e","l","e","c","t","o","r","1">>,      \* 'selector1'
    <<"s","e","l","e","c","t","o","r","2">>,      \* 'selector2'
    <<"d","e","f","a","u","l","t">>,              \* 'default'
    <<"d","k","i","m">>,                          \* 'dkim'
    <<"s","1">>,                                  \* 's1'
    <<"s","2">>,                                  \* 's2'
    <<"k","1">> >>                                \* 'k1'

s_k_eq == <<"k","=">>                             \* "k="
s_k_rsa_tag == <<"k","=","r","s","a">>            \* "k=rsa"
s_selector == <<"s","e","l","e","c","t","o","r">> \* "selector"
s_dots == <<".",".",".">>                         \* "..."

detectDKIMKeyType_p0(dkimRecord) ==
    IF Includes(dkimRecord, s_k_ed25519) THEN "Ed25519"
    ELSE IF Includes(dkimRecord, s_k_rsa_tag) \/ ~Includes(dkimRecord, s_k_eq) THEN "RSA"
    ELSE "Unknown"

\* The body of the for loop of checkDKIM (part_000) once the probe of
\* `selector` has settled: the foundSelectors array afterwards.
dkimProbe_p0_k(reply, selector, fnd) ==
    IF ~reply.ok \/ Len(reply.val) = 0 THEN fnd
    ELSE
      LET record == Flatten(reply.val[1])
          provider == IF StartsWith(selector, s_selector) THEN "Microsoft 365"
                      ELSE IF StartsWith(selector, selectors_p0[1]) THEN "Google Workspace"
                      ELSE "Unknown"
      IN  IF Includes(record, s_p_eq) \/ Includes(record, s_k_eq)
          THEN Append(fnd, [selector |-> selector,
                            keyType |-> detectDKIMKeyType_p0(record),
                            keySize |-> estimateDKIMKeySize_p0(record),
                            provider |-> provider,
                            record |-> SubSeq(record, 1, IF Len(record) < 100
                                                         THEN Len(record) ELSE 100)
                                       \o s_dots])
          ELSE fnd

RECURSIVE checkDKIM_p0_loop(_, _, _)
\* The for loop of checkDKIM (part_000) from selector i on.
checkDKIM_p0_loop(replies, i, fnd) ==
    IF i > Len(selectors_p0) THEN fnd
    ELSE checkDKIM_p0_loop(replies, i + 1,
                           dkimProbe_p0_k(replies[i], selectors_p0[i], fnd))

\* The return statements of checkDKIM (part_000).
checkDKIM_p0_return(foundSelectors) ==
    IF Len(foundSelectors) = 0
    THEN Returned([status |-> "WARN", selectors |-> <<>>,
                   issues |-> <<"No DKIM records found on common selectors. DKIM may be using custom selectors or missing entirely.">>])
    ELSE Returned([status |-> "PASS", selectors |-> foundSelectors, issues |-> <<>>])

-----------------------------------------------------------------------------
(* SpecDKIM: checkDKIM applied to bounded probe outcomes.                  *)

\* What the probe of a selector may meet: an error, an empty answer, a TXT
\* record that is no DKIM record, a DKIM record with no p= tag, and one with
\* a key.
ProbeKinds == {"err", "empty", "other", "nokey", "key"}

ProbeAnswer(k) ==
    CASE k = "err" -> DnsErr
      [] k = "empty" -> DnsOk(<<>>)
      [] k = "other" -> DnsOk(<< <<OtherTxt>> >>)
      [] k = "nokey" -> DnsOk(<< <<s_dkim_tag, s_k_rsa_tag>> >>)
      [] k = "key" -> DnsOk(<< <<KeyRecord("tagged", 8)>> >>)

\* The probes of the selectors after the first MaxProbed all fail.
ProbeReplies(kinds) ==
    [i \in 1..Len(selectors) |->
        IF i <= Len(kinds) THEN ProbeAnswer(kinds[i]) ELSE DnsErr]

InitDKIM ==
    /\ HandlerIdle
    /\ draft \in {"part_001", "part_000"}
    /\ pin \in [kind : {"dkim"}, kinds : [1..MaxProbed -> ProbeKinds]]
    /\ pout = NotRun

\* checkDKIM of part_001 runs on the probe outcomes.
RunCheckDKIM ==
    /\ pin.kind = "dkim"
    /\ draft = "part_001"
    /\ pout = NotRun
    /\ pout' = checkDKIM_return(
                   checkDKIM_loop(ProbeReplies(pin.kinds), 1, RepDomain, <<>>))
    /\ UNCHANGED <<pin, handlerVars>>

\* checkDKIM of part_000 runs on the probe outcomes.
RunCheckDKIM_p0 ==
    /\ pin.kind = "dkim"
    /\ draft = "part_000"
    /\ pout = NotRun
    /\ pout' = checkDKIM_p0_return(
                   checkDKIM_p0_loop(ProbeReplies(pin.kinds), 1, <<>>))
    /\ UNCHANGED <<pin, handlerVars>>

NextDKIM ==
    \/ RunCheckDKIM
    \/ RunCheckDKIM_p0

SpecDKIM == InitDKIM /\ [][NextDKIM]_vars

\* The selector list of the draft that runs.
SelectorsOf(d) == IF d = "part_000" THEN selectors_p0 ELSE selectors

RECURSIVE SelectSeq2(_, _, _)
\* The selectors, in list order, whose probe met a record with a p= tag.
SelectSeq2(sels, kinds, i) ==
    IF i > Len(kinds) THEN <<>>
    ELSE (IF kinds[i] = "key" THEN <<sels[i]>> ELSE <<>>)
         \o SelectSeq2(sels, kinds, i + 1)

\* C11: the DKIM result lists exactly the selectors whose probe returned a
\* record with a p= tag, in the order of the selector list; a probe that
\* errs or has no p= tag is left out; the status is PASS iff the list is
\* non-empty and WARN otherwise, never FAIL.
C11_DkimSelectors ==
    (pin.kind = "dkim" /\ pout # NotRun) =>
      LET listed == [i \in 1..Len(pout.val.selectors) |->
                        pout.val.selectors[i].selector]
      IN  /\ listed = SelectSeq2(SelectorsOf(draft), pin.kinds, 1)
          /\ pout.val.status = IF listed # <<>> THEN "PASS" ELSE "WARN"

-----------------------------------------------------------------------------
(* SpecDMARC: checkDMARC applied to records of tag=value segments.         *)

DmarcSeg(tag, tagText, val) == [tag |-> tag, val |-> val, text |-> tagText \o val]

s_mailto == <<"m","a","i","l","t","o",":","d","@","a",".","b">>   \* "mailto:d@a.b"

DmarcSegs ==
    {DmarcSeg("p", s_p_eq, s_none), DmarcSeg("p", s_p_eq, s_reject),
     DmarcSeg("sp", s_sp_eq, s_none), DmarcSeg("sp", s_sp_eq, s_reject),
     DmarcSeg("rua", s_rua_eq, s_mailto), DmarcSeg("pct", s_pct_eq, <<"5", "0">>)}

\* The segment lists tried: up to MaxSegs segments, no tag twice.
DmarcSegLists ==
    {l \in SeqsUpTo(DmarcSegs, MaxSegs) :
        \A i, j \in 1..Len(l) : l[i].tag = l[j].tag => i = j}

RECURSIVE JoinSegs(_)
JoinSegs(segs) ==
    IF segs = <<>> THEN <<>>
    ELSE <<";", " ">> \o Head(segs).text \o JoinSegs(Tail(segs))

\* "v=DMARC1; seg; seg; ..."
DmarcText(segs) == s_dmarc1 \o JoinSegs(segs)

InitDMARC ==
    /\ HandlerIdle
    /\ draft \in {"part_001", "server.js"}
    /\ pin \in [kind : {"dmarc"}, segs : DmarcSegLists]
    /\ pout = NotRun

\* checkDMARC of part_001 runs on the record.
RunCheckDMARC ==
    /\ pin.kind = "dmarc"
    /\ draft = "part_001"
    /\ pout = NotRun
    /\ pout' = checkDMARC_k(DnsOk(<< <<DmarcText(pin.segs)>> >>))
    /\ UNCHANGED <<pin, handlerVars>>

\* checkDMARC of server.js runs on the record.
RunCheckDMARC_srv ==
    /\ pin.kind = "dmarc"
    /\ draft = "server.js"
    /\ pout = NotRun
    /\ pout' = checkDMARC_srv_k(DnsOk(<< <<DmarcText(pin.segs)>> >>))
    /\ UNCHANGED <<pin, handlerVars>>

NextDMARC ==
    \/ RunCheckDMARC
    \/ RunCheckDMARC_srv

SpecDMARC == InitDMARC /\ [][NextDMARC]_vars

\* The value of the segment of `segs` whose tag is `tag`, or dflt.
SegValue(segs, tag, dflt) ==
    IF \E i \in 1..Len(segs) : segs[i].tag = tag
    THEN segs[CHOOSE i \in 1..Len(segs) : segs[i].tag = tag].val
    ELSE dflt

\* The policy the checker reports, in either draft's result.
ReportedDmarcPolicy ==
    IF draft = "server.js" THEN pout.val.policy[1] ELSE pout.val.parsed[1].policy

\* C12: the reported DMARC policy is the value of the segment whose tag is
\* exactly p (none without one), never that of sp, wherever the segments
\* stand; the status is WARN iff that policy is none or there is no rua
\* tag, else PASS.
C12_DmarcPolicy ==
    (pin.kind = "dmarc" /\ pout # NotRun) =>
      LET policy == SegValue(pin.segs, "p", s_none)
          noRua == \A i \in 1..Len(pin.segs) : pin.segs[i].tag # "rua"
      IN  /\ ReportedDmarcPolicy = policy
          /\ pout.val.status = IF policy = s_none \/ noRua THEN "WARN" ELSE "PASS"

-----------------------------------------------------------------------------
(* SpecPTR: checkPTR of the three drafts applied to bounded answers of the *)
(* reverse and the forward lookup.                                         *)

\* A lookup that fails with the given message.
DnsErrWith(msg) == [ok |-> FALSE, msg |-> msg]

\* checkPTR (part_001) from call to return, `reverse` and `forward` being
\* what dns.reverse(ip) and dns.resolve4(hostname) settle with.
checkPTR_run(ip, reverse, forward) ==
    IF NoIP(ip) THEN checkPTR_skipped
    ELSE IF ~reverse.ok THEN checkPTR_reverse_failed(reverse)
    ELSE LET hostname == FirstHostname(reverse.val)
         IN  IF hostname = Null \/ ~forward.ok
             THEN checkPTR_forward_failed(hostname)
             ELSE checkPTR_forward_k(forward.val, hostname, ip)

\* checkPTR (server.js) from call to return.
checkPTR_srv_run(ip, reverse, forward) ==
    IF NoIP(ip) THEN checkPTR_srv_skipped
    ELSE IF ~reverse.ok THEN checkPTR_srv_failed(reverse.msg)
    ELSE LET hostname == FirstHostname(reverse.val)
         IN  IF hostname = Null THEN checkPTR_srv_failed(InvalidArgMsg)
             ELSE IF ~forward.ok THEN checkPTR_srv_failed(forward.msg)
             ELSE checkPTR_srv_forward_k(forward.val, hostname, ip)

\* checkPTR (part_000) from call to return.
checkPTR_p0_run(ip, reverse, forward) ==
    IF NoIP(ip)
    THEN Returned([status |-> "SKIPPED", hostname |-> Null, fcRdns |-> "null",
                   issues |-> <<"No IP address provided">>])
    ELSE IF ~reverse.ok
    THEN Returned([status |-> "FAIL", hostname |-> Null, fcRdns |-> "false",
                   issues |-> <<"PTR lookup failed: " \o reverse.msg>>])
    ELSE IF Len(reverse.val) = 0
    THEN Returned([status |-> "FAIL", hostname |-> Null, fcRdns |-> "false",
                   issues |-> <<"No PTR record found for this IP">>])
    ELSE LET hostname == Some(reverse.val[1])
         IN  IF ~forward.ok
             THEN Returned([status |-> "FAIL", hostname |-> hostname,
                            fcRdns |-> "false",
                            issues |-> <<"FC-rDNS check failed: " \o forward.msg>>])
             ELSE LET fcRdns == \E i \in 1..Len(forward.val) : forward.val[i] = ip
                  IN  Returned([status |-> IF fcRdns THEN "PASS" ELSE "FAIL",
                                hostname |-> hostname,
                                fcRdns |-> IF fcRdns THEN "true" ELSE "false",
                                issues |-> IF fcRdns THEN <<>>
                                           ELSE <<"Forward-confirmed reverse DNS (FC-rDNS) failed - PTR hostname does not resolve back to the IP">>])

h_other == <<"m","x",".","c",".","d">>                                   \* "mx.c.d"
PtrErrors == {DnsErrWith("ENOTFOUND"), DnsErrWith("ETIMEOUT")}
PtrReverse == PtrErrors \cup {DnsOk(<<>>), DnsOk(<<h_mail>>), DnsOk(<<h_other, h_mail>>)}
PtrForward == PtrErrors \cup {DnsOk(<<>>), DnsOk(<<ip_1>>), DnsOk(<<ip_2>>),
                              DnsOk(<<ip_2, ip_1>>)}

InitPTR ==
    /\ HandlerIdle
    /\ draft \in {"part_001", "server.js", "part_000"}
    /\ pin \in [kind : {"ptr"}, ip : {ip_1, ip_2},
                reverse : PtrReverse, forward : PtrForward]
    /\ pout = NotRun

RunCheckPTR ==
    /\ pin.kind = "ptr"
    /\ draft = "part_001"
    /\ pout = NotRun
    /\ pout' = checkPTR_run(pin.ip, pin.reverse, pin.forward)
    /\ UNCHANGED <<pin, handlerVars>>

RunCheckPTR_srv ==
    /\ pin.kind = "ptr"
    /\ draft = "server.js"
    /\ pout = NotRun
    /\ pout' = checkPTR_srv_run(pin.ip, pin.reverse, pin.forward)
    /\ UNCHANGED <<pin, handlerVars>>

RunCheckPTR_p0 ==
    /\ pin.kind = "ptr"
    /\ draft = "part_000"
    /\ pout = NotRun
    /\ pout' = checkPTR_p0_run(pin.ip, pin.reverse, pin.forward)
    /\ UNCHANGED <<pin, handlerVars>>

NextPTR ==
    \/ RunCheckPTR
    \/ RunCheckPTR_srv
    \/ RunCheckPTR_p0

SpecPTR == InitPTR /\ [][NextPTR]_vars

\* The labels a draft may put before the message of the error it reports.
IssueLabels == {"", "PTR lookup failed: ", "FC-rDNS check failed: "}
\* The issues are the one message msg, bare or after a label.
IssueCarries(issues, msg) ==
    Len(issues) = 1 /\ \E label \in IssueLabels : issues[1] = label \o msg

\* The reverse lookup answered with a hostname and the supplied IP is among
\* the addresses the first hostname resolves to.
ForwardConfirmed ==
    /\ pin.reverse.ok
    /\ Len(pin.reverse.val) > 0
    /\ pin.forward.ok
    /\ \E i \in 1..Len(pin.forward.val) : pin.forward.val[i] = pin.ip

\* C13: with an IP supplied, PTR is PASS (fcRdns true) iff the reverse
\* lookup succeeds and the IP is among the addresses of its first hostname;
\* otherwise it is FAIL with fcRdns not true; and when the reverse or the
\* forward lookup failed, the issue carries the message of that error.
C13_PtrStatus ==
    (pin.kind = "ptr" /\ pout # NotRun) =>
      /\ pout.val.status = IF ForwardConfirmed THEN "PASS" ELSE "FAIL"
      /\ (pout.val.fcRdns = "true") = ForwardConfirmed
      /\ ~pin.reverse.ok => IssueCarries(pout.val.issues, pin.reverse.msg)
      /\ (pin.reverse.ok /\ Len(pin.reverse.val) > 0 /\ ~pin.forward.ok)
           => IssueCarries(pout.val.issues, pin.forward.msg)

-----------------------------------------------------------------------------
(* SpecMX: checkMX of part_001 applied to bounded MX answers.              *)

h_google == <<"a","s","p","m","x",".","l",".","g","o","o","g","l","e",".","c","o","m">>   \* "aspmx.l.google.com"
h_googlemail == <<"A","L","T","1",".","A","S","P","M","X",".","L",".","G","O","O","G","L","E","M","A","I","L",".","C","O","M">>   \* "ALT1.ASPMX.L.GOOGLEMAIL.COM"
h_outlook == <<"a","-","b",".","m","a","i","l",".","p","r","o","t","e","c","t","i","o","n",".","o","u","t","l","o","o","k",".","c","o","m">>   \* "a-b.mail.protection.outlook.com"
h_zoho == <<"m","x",".","z","o","h","o",".","c","o","m">>   \* "mx.zoho.com"

MxHosts == {h_google, h_googlemail, h_outlook, h_zoho, h_mail}
MxRecords == [exchange : MxHosts, priority : {10, 20}]

InitMX ==
    /\ HandlerIdle
    /\ draft = "part_001"
    /\ pin \in [kind : {"mx"}, records : SeqsUpTo(MxRecords, MaxMx)]
    /\ pout = NotRun

\* checkMX runs on the answer of dns.resolveMx.
RunCheckMX ==
    /\ pin.kind = "mx"
    /\ pout = NotRun
    /\ pout' = checkMX_k(DnsOk(pin.records))
    /\ UNCHANGED <<pin, handlerVars>>

NextMX == RunCheckMX

SpecMX == InitMX /\ [][NextMX]_vars

\* checkMX has run.
MXChecked == pin.kind = "mx" /\ pout # NotRun

\* The lower-cased exchanges of the sorted list the checker reports.
SortedHosts ==
    [i \in 1..Len(pout.val.records) |-> ToLowerCase(pout.val.records[i].exchange)]

\* Exchange h contains pattern j of provider i.
Matches(h, i, j) == Includes(h, MX_PROVIDERS[i].patterns[j])
\* Exchange h contains some pattern of some provider.
Known(h) ==
    \E i \in 1..Len(MX_PROVIDERS) : \E j \in 1..Len(MX_PROVIDERS[i].patterns) :
        Matches(h, i, j)
\* The first provider, in table order, with a pattern exchange h contains.
ProviderOf(h) ==
    CHOOSE i \in 1..Len(MX_PROVIDERS) :
        /\ \E j \in 1..Len(MX_PROVIDERS[i].patterns) : Matches(h, i, j)
        /\ \A k \in 1..(i - 1) :
             \A j \in 1..Len(MX_PROVIDERS[k].patterns) : ~Matches(h, k, j)

\* No exchange contains any pattern iff the result is Custom / Self-hosted,
\* confidence low, no matchedBy; a match has confidence high.
CustomIffUnknown ==
    LET prov == pout.val.provider[1]
        none == \A x \in 1..Len(SortedHosts) : ~Known(SortedHosts[x])
    IN  /\ none <=> prov.name = "Custom / Self-hosted"
        /\ none => prov.confidence = "low" /\ prov.matchedBy = Null
        /\ ~none => prov.confidence = "high" /\ prov.matchedBy # Null

\* C14: the detector takes the exchanges in list order and returns, for the
\* first exchange that contains a pattern, the first provider in table
\* order matching it, with matchedBy that exchange (as claimed).
C14_FirstExchangeWins ==
    MXChecked =>
      LET hosts == SortedHosts
          known == {x \in 1..Len(hosts) : Known(hosts[x])}
          first == CHOOSE x \in known : \A y \in known : x <= y
          prov == pout.val.provider[1]
      IN  /\ CustomIffUnknown
          /\ known # {} =>
               /\ prov.name = MX_PROVIDERS[ProviderOf(hosts[first])].name
               /\ prov.matchedBy = Some(hosts[first])

\* C14 (amended): the detector takes the providers in table order and the
\* patterns of a provider in order, and returns the first provider one of
\* whose patterns is contained in some exchange, with confidence high and
\* matchedBy the first exchange, in list order, containing the first such
\* pattern; ["aspmx.l.google.com"] gives Google Workspace; the result is
\* Custom / Self-hosted, confidence low, no matchedBy iff no exchange
\* contains any pattern.
C14_FirstProviderWins ==
    MXChecked =>
      LET hosts == SortedHosts
          prov == pout.val.provider[1]
          allp == {i \in 1..Len(MX_PROVIDERS) :
                      \E x \in 1..Len(hosts) :
                          \E j \in 1..Len(MX_PROVIDERS[i].patterns) : Matches(hosts[x], i, j)}
          i == CHOOSE a \in allp : \A b \in allp : a <= b
          pats == {j \in 1..Len(MX_PROVIDERS[i].patterns) :
                      \E x \in 1..Len(hosts) : Matches(hosts[x], i, j)}
          j == CHOOSE a \in pats : \A b \in pats : a <= b
          xs == {x \in 1..Len(hosts) : Matches(hosts[x], i, j)}
          x == CHOOSE a \in xs : \A b \in xs : a <= b
      IN  /\ CustomIffUnknown
          /\ allp # {} =>
               /\ prov.name = MX_PROVIDERS[i].name
               /\ prov.matchedBy = Some(hosts[x])
          /\ hosts = <<h_google>> => prov.name = "Google Workspace"

\* A Microsoft exchange of better priority stands before a Google exchange,
\* and the detector answers Google Workspace, matched by the Google exchange.
C14_Witness ==
    /\ MXChecked
    /\ Len(pout.val.records) = 2
    /\ SortedHosts[1] = h_outlook
    /\ SortedHosts[2] = h_google
    /\ pout.val.provider[1].name = "Google Workspace"
    /\ pout.val.provider[1].matchedBy = Some(h_google)

-----------------------------------------------------------------------------
(* Properties of the request handler (Spec, SpecServer). *)

Statuses == {"PASS", "WARN", "FAIL", "SKIPPED"}

\* The reply action that completes checker c.
ReplyOf(c) ==
    CASE c = "MX" -> MXReply
      [] c = "SPF" -> SPFReply
      [] c = "DKIM" -> DKIMReply
      [] c = "DMARC" -> DMARCReply
      [] c = "PTR" -> PTRReverseReply \/ PTRForwardReply

\* The section of the report that carries checker c's result.
Section(body, c) ==
    CASE c = "MX" -> body.mx
      [] c = "SPF" -> body.spf
      [] c = "DKIM" -> body.dkim
      [] c = "DMARC" -> body.dmarc
      [] c = "PTR" -> body.ptr

\* C1: for a non-empty domain all five checkers are started; a checker that
\* is still waiting for DNS can always go on, whatever the others returned;
\* and the report is sent only once all five have completed, carrying each
\* checker's own result with a PASS/WARN/FAIL/SKIPPED status.
C1_AllFiveJoin ==
    /\ pc = "awaiting" => \A c \in Five : chk[c] \in {"dns", "done"}
    /\ \A c \in Five : chk[c] = "dns" => ENABLED ReplyOf(c)
    /\ resp.code = 200 =>
         \A c \in Five :
           /\ chk[c] = "done"
           /\ Section(resp.body, c) = result[c]
           /\ result[c].status \in Statuses
    /\ pc = "responded" /\ Truthy(clean) => resp.code = 200

\* A report was sent in which one checker failed and another passed.
C1_Witness ==
    /\ resp.code = 200
    /\ \E c, d \in Five :
         result[c].status = "FAIL" /\ result[d].status = "PASS"

\* C2: a DNS error in MX, SPF, DMARC or PTR never leaves the checker: the
\* checker completes with status FAIL and a non-empty issues list, and the
\* handler does not crash.
C2_ErrorsCaught ==
    /\ \A c \in {"MX", "SPF", "DMARC", "PTR"} :
         c \in erred =>
           /\ chk[c] = "done"
           /\ result[c].status = "FAIL"
           /\ Len(result[c].issues) > 0
    /\ pc # "crashed"
    /\ \A c \in Checkers : chk[c] # "threw"

\* All four checkers met a DNS error (PTR on its second call, after the
\* reverse lookup had answered) and the report was still sent.
C2_Witness ==
    /\ resp.code = 200
    /\ {"MX", "SPF", "DMARC", "PTR"} \subseteq erred
    /\ "PTR" \in oked

\* Every DNS call of the request failed and no IP was supplied.
AllDnsFailedNoIP ==
    /\ resp.code = 200
    /\ NoIP(req.ip)
    /\ oked = {}
    /\ found = <<>>

\* C4: when every DNS call fails and no IP is supplied, the report has
\* mx FAIL, spf FAIL, dkim WARN, dmarc FAIL and ptr SKIPPED, no PTR lookup
\* was made, and the reputation score is at most 55.
C4_AllDnsFail ==
    AllDnsFailedNoIP =>
      /\ resp.body.mx.status = "FAIL"
      /\ resp.body.spf.status = "FAIL"
      /\ resp.body.dkim.status = "WARN"
      /\ resp.body.dmarc.status = "FAIL"
      /\ resp.body.ptr.status = "SKIPPED"
      /\ \A call \in calls : call.by # "PTR"
      /\ resp.body.reputation[1].score <= 55

\* The report of a request whose every lookup failed: MX, SPF and DMARC
\* erred, and the last DKIM selector has been tried.
C4_Witness ==
    /\ AllDnsFailedNoIP
    /\ {"MX", "SPF", "DMARC"} \subseteq erred
    /\ dkimI = Len(selectors)

\* The request's domain is missing or empty once normalised.
EmptyOnceNormalised ==
    /\ pc # "idle"
    /\ (req.domain = Null \/ CleanDomain(req.domain[1]) = <<>>)

\* C3: a request whose domain is empty after normalisation is answered with
\* 400 and no DNS call is made.
C3_EmptyDomainRejected ==
    EmptyOnceNormalised => resp.code = 400 /\ calls = {}

\* The selector list of the draft that runs.
SelectorsOfDraft == IF draft = "server.js" THEN selectors_srv ELSE selectors

\* The selectors (by position) whose probe has been issued.
ProbesIssued ==
    {i \in 1..Len(SelectorsOfDraft) :
        Call("DKIM", "resolveTxt", DkimHost(SelectorsOfDraft[i], clean[1])) \in calls}

\* C15: the probes of all the selectors are issued without waiting for an
\* earlier probe to complete, so that several are outstanding at once (as
\* claimed).
C15_ProbesConcurrent ==
    pc = "awaiting" => ProbesIssued = 1..Len(SelectorsOfDraft)

\* C15 (amended): the probes run one after another in list order: while
\* checkDKIM waits, the probes issued are those of the selectors up to the
\* one it waits for, so one probe is outstanding and no later one has been
\* issued; whatever the probes answered, failure included, checkDKIM ends
\* only after the probe of every selector was issued, and it never throws.
C15_ProbesSequential ==
    /\ (pc = "awaiting" /\ chk["DKIM"] = "dns") =>
          /\ ProbesIssued = 1..dkimI
          /\ dkimI <= Len(SelectorsOfDraft)
          /\ Len(found) < dkimI
    /\ (pc # "idle" /\ Truthy(clean) /\ chk["DKIM"] # "dns") =>
          /\ chk["DKIM"] = "done"
          /\ ProbesIssued = 1..Len(SelectorsOfDraft)

\* checkDKIM waits for the probe of the third selector: the first probe found
\* a key, the second did not, the later ones are not yet issued, and another
\* checker has already ended.
C15_Witness ==
    /\ pc = "awaiting"
    /\ chk["DKIM"] = "dns"
    /\ dkimI = 3
    /\ Len(found) = 1
    /\ ProbesIssued = {1, 2, 3}
    /\ chk["MX"] = "done"

\* The handler has answered the request with the analysis report.
ReportSent == pc = "responded" /\ resp.code = 200

\* C16: for a request with a non-empty normalised domain, if every DNS call
\* eventually returns or fails, the handler eventually sends the analysis
\* report, and sends one response only: whatever the DNS calls answer, an
\* error or an empty record set included, no checker throws, the handler
\* does not stop without a response, and the response is not an error.
C16_ReportSent ==
    /\ (pc = "awaiting") ~> ReportSent
    /\ [](\A c \in Checkers : chk[c] # "threw")
    /\ [](pc # "crashed")
    /\ [](pc = "responded" /\ Truthy(clean) => resp.code = 200)
    /\ [][resp # NoResponse => resp' = resp]_vars

\* The report was sent after a lookup had failed (MX), TXT lookups had
\* answered with an empty record set (DMARC, and DKIM on every selector) and
\* the reverse lookup had answered with no hostname.
C16_Witness ==
    /\ ReportSent
    /\ "MX" \in erred
    /\ "DMARC" \in oked
    /\ result["DMARC"].record = Some(<<>>)
    /\ result["DKIM"].status = "WARN"
    /\ "PTR" \in oked
    /\ result["PTR"].hostname = Null
    /\ result["PTR"].status = "FAIL"

\* A checker result has status PASS iff its issues list is empty.
PassIffNoIssues(r) == (r.status = "PASS") <=> (r.issues = <<>>)

\* C17: in every report, each of the five checker results (MX, SPF, DKIM,
\* DMARC, PTR) has status PASS iff its issues list is empty: every WARN, FAIL
\* and SKIPPED result carries at least one issue and no PASS result carries
\* any.
C17_PassIffNoIssues ==
    resp.code = 200 =>
      \A c \in Five :
        /\ PassIffNoIssues(Section(resp.body, c))
        /\ Section(resp.body, c).status \in {"WARN", "FAIL", "SKIPPED"}
             => Len(Section(resp.body, c).issues) >= 1

\* A report with PASS, WARN, FAIL and SKIPPED results: MX and DKIM passed,
\* SPF warned, DMARC failed and PTR was skipped.
C17_Witness ==
    /\ resp.code = 200
    /\ resp.body.mx.status = "PASS"
    /\ resp.body.spf.status = "WARN"
    /\ resp.body.dkim.status = "PASS"
    /\ resp.body.dmarc.status = "FAIL"
    /\ resp.body.ptr.status = "SKIPPED"

=============================================================================
